---- MODULE Spec2Model ----
(***************************************************************************)
(* A model of prd.py (progrockdiffusion): the schedule engine              *)
(* (val_interpolate, num_to_schedule, smooth_jazz), the prompt-weight      *)
(* normalisation (do_run.do_weights), the guidance aggregator's gradient   *)
(* post-processing (do_run.cond_fn), the denoising loop of do_run, and the *)
(* tile placement of the "go big" pass (grid_coords).                      *)
(*                                                                         *)
(* Each subsystem has its own specification (SpecGrid, SpecSched, ...)     *)
(* over its own variables; the variables of the other subsystems stay at   *)
(* their idle values.                                                      *)
(***************************************************************************)
EXTENDS Integers, Sequences, FiniteSets, TLC

VARIABLES
    \* ---- grid_coords (src/prd.py:2410-2468) ----
    gpc,        \* position inside grid_coords
    target,     \* <<target_x, target_y>>
    original,   \* <<original_x, original_y>>
    overlap,    \* overlap
    uy, dy, lx, rx,                       \* the four running coordinates
    uy_list, dy_list, lx_list, rx_list,   \* the four coordinate lists
    result,                               \* the returned list
    \* ---- schedules (src/prd.py:498-518, 585-589, 739-768, 2250, 2315-2316) ----
    spc,            \* "setting", "string", "list", "smoothed" or "IndexError"
    setting,        \* the setting: a number with its final value, or a string
    sched_str,      \* the string-style schedule, as its "[v]*n" terms
    schedule,       \* the evaluated schedule (a Python list, element 0 first)
    sched_before,   \* the evaluated schedule as it was before smooth_jazz
    \* ---- do_run and the batch loop (src/prd.py:884-1426, 2484-2652) ----
    rpc,            \* "batch", "while", "for", "raised" or "exit"
    args,           \* the settings of the run
    batch_image,    \* the batch loop's counter
    cur_t,
    actual_run_steps,
    init,           \* the working estimate given to do_sample_fn
    imgToSharpen,   \* whether the final image was put aside for sharpening
    prompt_weights, \* clip_manager.prompt_weights of each clip manager
    prev_sample_prompt,
    prev_sample_image_prompt,
    exc,            \* the exception in flight or caught
    saved,          \* the image files written, in order
    steps_run,      \* denoising steps executed for the current image
    adjusted,       \* the last brightness/contrast correction
    cleaned,        \* the finally block of the batch has run
    app_error,      \* the program ended with an uncaught exception
    skip_timesteps, \* _skip of the last call of do_sample_fn
    sample_init,    \* init as the last call of do_sample_fn found it
    sample_j,       \* j of 'for j, sample in enumerate(samples)'
    executed,       \* the steps of the sampler run for the current image
    \* ---- do_run.cond_fn (src/prd.py:1117-1188) ----
    cond_calls,     \* the calls of cond_fn so far, one per denoising step
    cond_args,      \* args.clamp_grad and args.clamp_max[1000 - t_int]
    x_in_grad,      \* the accumulated gradient of the last call
    x_is_NaN,
    grad,           \* what the last call returned
    latent,         \* "finite", or "corrupted" once a returned gradient
                    \* that is not finite was added to the image estimate
    \* ---- start of the program (src/prd.py:473-481, 1854-1861, 2165-2169) ----
    boot,                   \* where the start of the program is
    my_settings,            \* the settings read from the settings files
    useinit,                \* cl_args.useinit is given
    models_loaded,          \* lines 1854-1861 have loaded the models
    calc_frames_skip_steps,
    boot_exc,               \* the exception that ended the program
    boot_cur_t,             \* cur_t of the first image
    boot_steps_run,          \* denoising steps run so far
    \* ---- do_run: the pixels of the final image (src/prd.py:1087-1112, 1336-1354) ----
    mpc,            \* where the run of the image is
    mask_args,      \* the settings and the image files they name
    init_img,       \* the init image, RGBA, or <<>> while it is not bound
    rmask_img,      \* the render mask, mode L, or <<>>
    image,          \* the preview of the last denoising step
    mask_cur_t,     \* cur_t of this run
    progress_png,   \* progress.png
    final_output,   \* the file of the final image in batchFolder
    mask_exc,        \* the exception that ended the run
    \* ---- go big (src/prd.py:2404-2408, 2471-2481, 2497-2635) ----
    bpc,            \* where the go-big pass is
    gobig,          \* side_x, side_y, gobig_scale, gobig_overlap, gobig_slices
    slices_todo,
    slices,         \* what grid_slice returned
    betterslices,   \* the resynthesized tiles, with their coordinates
    alpha,          \* the alpha mask of the tiles
    source_image,   \* the canvas: for each pixel the tiles drawn on it
    merged,         \* the tiles grid_merge has composited
    rmasks,         \* the slices of the render mask, or <<>>
    imasks,          \* the slices of the init mask, or <<>>
    \* ---- the batch loop (src/prd.py:411, 1838-1842, 2230-2312, 2488-2645) ----
    lpc,            \* where the batch loop is
    settings_file,  \* width_height and width_height_scale of the settings
    loop_settings,  \* my_settings, as the batch loop and do_run read it
    loop_cl_args,   \* cl_args: gobig, gobig_slices
    loop_args,      \* the namespace args
    temp_args,      \* the copy of args a go-big pass takes, or <<>>
    side,           \* the globals side_x and side_y
    og_size,
    loop_batch,     \* batch_image
    passes,         \* the go-big passes begun
    runs,           \* the renders do_run has sampled
    loop_exc        \* the exception that ended the program

gridVars == <<gpc, target, original, overlap, uy, dy, lx, rx,
              uy_list, dy_list, lx_list, rx_list, result>>

schedVars == <<spc, setting, sched_str, schedule, sched_before>>

runVars == <<rpc, args, batch_image, cur_t, actual_run_steps, init,
             imgToSharpen, prompt_weights, prev_sample_prompt,
             prev_sample_image_prompt, exc, saved, steps_run, adjusted,
             cleaned, app_error, skip_timesteps, sample_init, sample_j,
             executed>>

condVars == <<cond_calls, cond_args, x_in_grad, x_is_NaN, grad, latent>>

bootVars == <<boot, my_settings, useinit, models_loaded, calc_frames_skip_steps, boot_exc, boot_cur_t, boot_steps_run>>

maskVars == <<mpc, mask_args, init_img, rmask_img, image, mask_cur_t, progress_png, final_output, mask_exc>>

bigVars == <<bpc, gobig, slices_todo, slices, betterslices, alpha, source_image, merged, rmasks, imasks>>

loopVars == <<lpc, settings_file, loop_settings, loop_cl_args, loop_args, temp_args, side, og_size, loop_batch, passes, runs, loop_exc>>

vars == <<gridVars, schedVars, runVars, condVars, bootVars, maskVars, bigVars, loopVars>>

\* what each subsystem leaves alone
notGrid  == <<schedVars, runVars, condVars, bootVars, maskVars, bigVars, loopVars>>
notSched == <<gridVars, runVars, condVars, bootVars, maskVars, bigVars, loopVars>>
notRun   == <<gridVars, schedVars, condVars, bootVars, maskVars, bigVars, loopVars>>
notCond  == <<gridVars, schedVars, runVars, bootVars, maskVars, bigVars, loopVars>>
notBoot == <<gridVars, schedVars, runVars, condVars, maskVars, bigVars, loopVars>>
notMask == <<gridVars, schedVars, runVars, condVars, bootVars, bigVars, loopVars>>
notBig == <<gridVars, schedVars, runVars, condVars, bootVars, maskVars, loopVars>>
notLoop == <<gridVars, schedVars, runVars, condVars, bootVars, maskVars, bigVars>>

----------------------------------------------------------------------------
(* Helpers                                                                 *)

\* Python's int(a / b) for b > 0: the quotient truncated toward zero.
TruncDiv(a, b) == IF a >= 0 THEN a \div b ELSE -((-a) \div b)

\* Python's list[::-1]
Reverse(s) == [i \in 1..Len(s) |-> s[Len(s) + 1 - i]]

----------------------------------------------------------------------------
(* grid_coords                                                             *)

MaxTarget  == 5   \* target canvas sides are 1..MaxTarget
MaxTile    == 3   \* tile sides are 1..MaxTile
MaxOverlap == 2   \* overlap is 0..MaxOverlap
MaxIter    == 24  \* iterations of grid_coords' loops the model follows

\* x = center_x - int(original_x / 2), the same for y
CenterX == TruncDiv(target[1], 2) - TruncDiv(original[1], 2)
CenterY == TruncDiv(target[2], 2) - TruncDiv(original[2], 2)

GridIdle ==
    /\ gpc = "idle" /\ target = <<1, 1>> /\ original = <<1, 1>> /\ overlap = 0
    /\ uy = 0 /\ dy = 0 /\ lx = 0 /\ rx = 0
    /\ uy_list = <<>> /\ dy_list = <<>> /\ lx_list = <<>> /\ rx_list = <<>>
    /\ result = <<>>

SchedIdle ==
    /\ spc = "idle" /\ setting = <<>> /\ sched_str = <<>>
    /\ schedule = <<>> /\ sched_before = <<>>

RunIdle ==
    /\ rpc = "idle" /\ args = <<>> /\ batch_image = 0 /\ cur_t = 0
    /\ actual_run_steps = 0 /\ init = "none" /\ imgToSharpen = FALSE
    /\ prompt_weights = <<>> /\ prev_sample_prompt = <<>>
    /\ prev_sample_image_prompt = <<>> /\ exc = "none" /\ saved = <<>>
    /\ steps_run = 0 /\ adjusted = <<>> /\ cleaned = FALSE
    /\ app_error = FALSE /\ skip_timesteps = 0 /\ sample_init = "none"
    /\ sample_j = 0 /\ executed = <<>>

CondIdle ==
    /\ cond_calls = 0 /\ cond_args = <<>> /\ x_in_grad = <<>>
    /\ x_is_NaN = FALSE /\ grad = <<>> /\ latent = "idle"

BootIdle ==
    /\ boot = "idle" /\ my_settings = <<>> /\ useinit = FALSE
    /\ models_loaded = FALSE /\ calc_frames_skip_steps = 0
    /\ boot_exc = "none" /\ boot_cur_t = 0 /\ boot_steps_run = 0

MaskIdle ==
    /\ mpc = "idle" /\ mask_args = <<>> /\ init_img = <<>>
    /\ rmask_img = <<>> /\ image = <<>> /\ mask_cur_t = 0
    /\ progress_png = <<>> /\ final_output = <<>> /\ mask_exc = "none"

BigIdle ==
    /\ bpc = "idle" /\ gobig = <<>> /\ slices_todo = 0 /\ slices = <<>>
    /\ betterslices = <<>> /\ alpha = <<>> /\ source_image = <<>>
    /\ merged = 0 /\ rmasks = <<>> /\ imasks = <<>>

LoopIdle ==
    /\ lpc = "idle" /\ settings_file = <<>> /\ loop_settings = <<>>
    /\ loop_cl_args = <<>> /\ loop_args = <<>> /\ temp_args = <<>>
    /\ side = <<>> /\ og_size = <<>> /\ loop_batch = 0 /\ passes = 0
    /\ runs = <<>> /\ loop_exc = "none"

\* The state after lines 2413-2428: the centre chunk is computed and the
\* four coordinates start on it.
InitGrid ==
    /\ target \in (1..MaxTarget) \X (1..MaxTarget)
    /\ original \in (1..MaxTile) \X (1..MaxTile)
    /\ overlap \in 0..MaxOverlap
    /\ gpc = "center_up"
    /\ uy = CenterY /\ dy = CenterY /\ lx = CenterX /\ rx = CenterX
    /\ uy_list = <<>> /\ dy_list = <<>> /\ lx_list = <<>> /\ rx_list = <<>>
    /\ result = <<>>
    /\ SchedIdle /\ RunIdle /\ CondIdle /\ BootIdle /\ MaskIdle /\ BigIdle /\ LoopIdle

InBudget == Len(uy_list) < MaxIter /\ Len(dy_list) < MaxIter
            /\ Len(lx_list) < MaxIter /\ Len(rx_list) < MaxIter

\* while uy > 0 (line 2429): centre column, upwards
CenterUp ==
    /\ gpc = "center_up"
    /\ IF uy > 0
       THEN /\ InBudget
            /\ uy' = uy - original[2] + overlap
            /\ uy_list' = Append(uy_list, <<lx, uy'>>)
            /\ UNCHANGED gpc
       ELSE /\ gpc' = "center_down"
            /\ UNCHANGED <<uy, uy_list>>
    /\ UNCHANGED <<target, original, overlap, dy, lx, rx, dy_list, lx_list,
                   rx_list, result>>
    /\ UNCHANGED notGrid

\* while (dy + original_y) <= target_y (line 2432): centre column, downwards
CenterDown ==
    /\ gpc = "center_down"
    /\ IF dy + original[2] <= target[2]
       THEN /\ InBudget
            /\ dy' = dy + original[2] - overlap
            /\ dy_list' = Append(dy_list, <<rx, dy'>>)
            /\ UNCHANGED gpc
       ELSE /\ gpc' = "left"
            /\ UNCHANGED <<dy, dy_list>>
    /\ UNCHANGED <<target, original, overlap, uy, lx, rx, uy_list, lx_list,
                   rx_list, result>>
    /\ UNCHANGED notGrid

\* while lx > 0 (lines 2435-2438): one more column to the left
Left ==
    /\ gpc = "left"
    /\ IF lx > 0
       THEN /\ InBudget
            /\ lx' = lx - original[1] + overlap
            /\ lx_list' = Append(lx_list, <<lx', CenterY>>)
            /\ uy' = CenterY
            /\ gpc' = "left_up"
       ELSE /\ gpc' = "right"
            /\ UNCHANGED <<lx, lx_list, uy>>
    /\ UNCHANGED <<target, original, overlap, dy, rx, uy_list, dy_list,
                   rx_list, result>>
    /\ UNCHANGED notGrid

\* while uy > 0 (lines 2439-2442), then dy = y
LeftUp ==
    /\ gpc = "left_up"
    /\ IF uy > 0
       THEN /\ InBudget
            /\ uy' = uy - original[2] + overlap
            /\ uy_list' = Append(uy_list, <<lx, uy'>>)
            /\ UNCHANGED <<gpc, dy>>
       ELSE /\ dy' = CenterY
            /\ gpc' = "left_down"
            /\ UNCHANGED <<uy, uy_list>>
    /\ UNCHANGED <<target, original, overlap, lx, rx, dy_list, lx_list,
                   rx_list, result>>
    /\ UNCHANGED notGrid

\* while (dy + original_y) <= target_y (lines 2443-2445)
LeftDown ==
    /\ gpc = "left_down"
    /\ IF dy + original[2] <= target[2]
       THEN /\ InBudget
            /\ dy' = dy + original[2] - overlap
            /\ dy_list' = Append(dy_list, <<lx, dy'>>)
            /\ UNCHANGED gpc
       ELSE /\ gpc' = "left"
            /\ UNCHANGED <<dy, dy_list>>
    /\ UNCHANGED <<target, original, overlap, uy, lx, rx, uy_list, lx_list,
                   rx_list, result>>
    /\ UNCHANGED notGrid

\* MasterList with the downward tiles forgotten
MasterListNoDown ==
    Reverse(uy_list) \o Reverse(rx_list) \o Reverse(lx_list)
        \o << <<CenterX, CenterY>> >>

\* lines 2458-2468: the master list, the lists reversed and the centre last
MasterList ==
    Reverse(dy_list) \o Reverse(uy_list) \o Reverse(rx_list)
        \o Reverse(lx_list) \o << <<CenterX, CenterY>> >>

\* while (rx + original_x) <= target_x (lines 2446-2449); when the loop ends
\* the result is assembled and returned (lines 2457-2468)
Right ==
    /\ gpc = "right"
    /\ IF rx + original[1] <= target[1]
       THEN /\ InBudget
            /\ rx' = rx + original[1] - overlap
            /\ rx_list' = Append(rx_list, <<rx', CenterY>>)
            /\ uy' = CenterY
            /\ gpc' = "right_up"
            /\ UNCHANGED result
       ELSE /\ result' = MasterList
            /\ gpc' = "done"
            /\ UNCHANGED <<rx, rx_list, uy>>
    /\ UNCHANGED <<target, original, overlap, dy, lx, uy_list, dy_list,
                   lx_list>>
    /\ UNCHANGED notGrid

\* while uy > 0 (lines 2450-2453), then dy = y
RightUp ==
    /\ gpc = "right_up"
    /\ IF uy > 0
       THEN /\ InBudget
            /\ uy' = uy - original[2] + overlap
            /\ uy_list' = Append(uy_list, <<rx, uy'>>)
            /\ UNCHANGED <<gpc, dy>>
       ELSE /\ dy' = CenterY
            /\ gpc' = "right_down"
            /\ UNCHANGED <<uy, uy_list>>
    /\ UNCHANGED <<target, original, overlap, lx, rx, dy_list, lx_list,
                   rx_list, result>>
    /\ UNCHANGED notGrid

\* while (dy + original_y) <= target_y (lines 2454-2456)
RightDown ==
    /\ gpc = "right_down"
    /\ IF dy + original[2] <= target[2]
       THEN /\ InBudget
            /\ dy' = dy + original[2] - overlap
            /\ dy_list' = Append(dy_list, <<rx, dy'>>)
            /\ UNCHANGED gpc
       ELSE /\ gpc' = "right"
            /\ UNCHANGED <<dy, dy_list>>
    /\ UNCHANGED <<target, original, overlap, uy, lx, rx, uy_list, lx_list,
                   rx_list, result>>
    /\ UNCHANGED notGrid

NextGrid ==
    \/ CenterUp \/ CenterDown
    \/ Left \/ LeftUp \/ LeftDown
    \/ Right \/ RightUp \/ RightDown

SpecGrid == InitGrid /\ [][NextGrid]_vars

\* grid_coords is straight-line sequential code: whenever it has a next
\* statement, it executes it.
FairSpecGrid == SpecGrid /\ WF_vars(NextGrid)

\* grid_slice (lines 2471-2481) crops (x, y, x+width, y+height) for each
\* coordinate: the pixel <<px, py>> lies in the rectangle of tile c
InTile(c, px, py) ==
    /\ c[1] <= px /\ px < c[1] + original[1]
    /\ c[2] <= py /\ py < c[2] + original[2]

Covered ==
    \A px \in 0..(target[1] - 1), py \in 0..(target[2] - 1) :
        \E i \in 1..Len(result) : InTile(result[i], px, py)

----------------------------------------------------------------------------
(* Claims about grid_coords                                                *)

\* One iteration of a growth loop moves its coordinate toward the edge it
\* grows to. Every loop moves its coordinate by the same stride on each
\* iteration, so a loop that is entered ends exactly when this holds.
Advances ==
    /\ (gpc \in {"center_up", "left_up", "right_up"} /\ uy > 0) => uy' < uy
    /\ (gpc \in {"center_down", "left_down", "right_down"}
            /\ dy + original[2] <= target[2]) => dy' > dy
    /\ (gpc = "left" /\ lx > 0) => lx' < lx
    /\ (gpc = "right" /\ rx + original[1] <= target[1]) => rx' > rx

\* C1 (as stated): for every target size, tile size and overlap, grid_coords
\* terminates (each of its loops advances) and the returned tile rectangles
\* cover every pixel of the target canvas.
C1_AnyOverlapCovers == [](gpc = "done" => Covered) /\ [][Advances]_vars

\* C1 (amended): for every target size and tile size and every overlap o
\* with 0 <= o < min(tile_w, tile_h), grid_coords terminates and the
\* returned tile rectangles cover every pixel of the target canvas.
C1_TileCoverage ==
    (overlap >= 0 /\ overlap < original[1] /\ overlap < original[2])
        => <>(gpc = "done" /\ Covered)

\* grid_coords returned a grid of several columns and rows with a real
\* overlap smaller than the tile.
C1_Witness ==
    /\ gpc = "done" /\ overlap > 0
    /\ overlap < original[1] /\ overlap < original[2]
    /\ Len(lx_list) > 0 /\ Len(rx_list) > 0
    /\ Len(uy_list) > 1 /\ Len(dy_list) > 1
    /\ Covered

\* the rectangle of tile c lies inside the target canvas
InsideCanvas(c) ==
    /\ 0 <= c[1] /\ c[1] + original[1] <= target[1]
    /\ 0 <= c[2] /\ c[2] + original[2] <= target[2]

\* C16: every tile is a sub-rectangle of the target canvas: for each
\* coordinate (x, y) grid_coords returns, 0 <= x, 0 <= y,
\* x + tile_w <= target_w and y + tile_h <= target_h.
C16_TilesInsideCanvas ==
    gpc = "done" => \A i \in 1..Len(result) : InsideCanvas(result[i])

----------------------------------------------------------------------------
(* Schedules: val_interpolate, num_to_schedule, smooth_jazz                *)
(*                                                                         *)
(* A Python number is modelled with its type and its exact value n/d (in   *)
(* lowest terms, d > 0). The arithmetic below is exact; on the values the  *)
(* specification draws, double precision gives the same results.           *)

CanonicalSteps == 1000   \* the length num_to_schedule writes
Sentinel       == -9999  \* the default of num_to_schedule's final
MaxNum         == 3      \* settings are numbers in -1..MaxNum, or halves of them

Abs(a) == IF a < 0 THEN -a ELSE a

RECURSIVE GCD(_, _)
GCD(a, b) == IF b = 0 THEN a ELSE GCD(b, a % b)

PyInt(k) == [ty |-> "int", n |-> k, d |-> 1]

\* the float n/d, for d # 0
PyFloat(n, d) ==
    LET g == GCD(Abs(n), Abs(d))
        sgn == IF d < 0 THEN -1 ELSE 1
    IN  [ty |-> "float", n |-> sgn * (n \div g), d |-> sgn * (d \div g)]

\* Python's == and != on numbers compare values whatever the types
NumEq(a, b) == a.n * b.d = b.n * a.d

\* a <= b on numbers
NumLeq(a, b) == a.n * b.d <= b.n * a.d

\* val_interpolate (lines 498-504), for x1 # x2:
\*   output = y1 + (x - x1) * ((y2 - y1) / (x2 - x1))
\*   if type(y1) == int: output = int(output)
val_interpolate(x1, y1, x2, y2, x) ==
    LET num == y1.n * y2.d * (x2 - x1)
                 + (x - x1) * (y2.n * y1.d - y1.n * y2.d)
        den == y1.d * y2.d * (x2 - x1)
        pn  == IF den < 0 THEN -num ELSE num
        pd  == Abs(den)
    IN  IF y1.ty = "int" THEN PyInt(TruncDiv(pn, pd)) ELSE PyFloat(pn, pd)

\* A term that loses the number it repeats
TermOfZero(v, k) == [val |-> PyInt(0), rep |-> k]

\* One "[v]*n" term of a string-style schedule
Term(v, k) == [val |-> v, rep |-> k]

\* num_to_schedule with a loop that stops one element early
num_to_scheduleShort(input, final) ==
    IF ~(final.ty = "int" /\ final.n = Sentinel)
    THEN <<Term(input, 1)>> \o
         [i \in 1..(CanonicalSteps - 2) |->
            Term(val_interpolate(1, input, CanonicalSteps, final, i), 1)]
    ELSE <<Term(input, CanonicalSteps)>>

\* num_to_schedule (lines 507-518). The f-string writes a number so that
\* evaluating the text gives back the same number of the same type.
num_to_schedule(input, final) ==
    IF ~(final.ty = "int" /\ final.n = Sentinel)
    THEN <<Term(input, 1)>> \o
         [i \in 1..(CanonicalSteps - 1) |->
            Term(val_interpolate(1, input, CanonicalSteps, final, i), 1)]
    ELSE <<Term(input, CanonicalSteps)>>

\* eval() of a string-style schedule (lines 2246-2294): the list that the
\* sum of the "[v]*n" terms denotes
RECURSIVE EvalTerms(_, _, _)
EvalTerms(terms, lo, hi) ==
    IF lo > hi THEN <<>>
    ELSE IF lo = hi THEN [k \in 1..terms[lo].rep |-> terms[lo].val]
    ELSE LET mid == (lo + hi) \div 2
         IN  EvalTerms(terms, lo, mid) \o EvalTerms(terms, mid + 1, hi)

EvalSchedule(terms) == EvalTerms(terms, 1, Len(terms))

\* Python's list[i] for a list held as a sequence: element 0 is the first
PyGet(list, i) == list[i + 1]
PyInRange(list, i) == 0 <= i /\ i < Len(list)

\* zone = int(len(schedule) * .05) (line 743)
Zone(list) == TruncDiv(Len(list) * 5, 100)

\* ascending list of a finite set of integers
RECURSIVE SortedSeq(_)
SortedSeq(S) ==
    IF S = {} THEN <<>>
    ELSE LET m == CHOOSE a \in S : \A b \in S : a <= b
         IN  <<m>> \o SortedSeq(S \ {m})

\* the markers (lines 744-751): i is appended when the number at i differs
\* from the number before it
IsMarker(list, i) ==
    /\ 1 <= i /\ i < Len(list)
    /\ ~NumEq(PyGet(list, i), PyGet(list, i - 1))

\* the zone of one marker (lines 757-762)
ZoneStart(list, index) ==
    LET start == TruncDiv(2 * index - Zone(list), 2)
    IN  IF start < 1 THEN 1 ELSE start

ZoneEnd(list, index) ==
    LET end == TruncDiv(2 * index + Zone(list), 2)
    IN  IF end > Len(list) THEN Len(list) ELSE end

\* (index - lastindex) >= (zone / 2)   (line 756)
FarEnough(list, index, lastindex) == 2 * (index - lastindex) >= Zone(list)

\* line 756 when the loop reaches the marker index: lastindex is then the
\* marker before index, or 0 when index is the first one (lines 752, 767).
\* The nearest of them is far enough exactly when each of them is, and one
\* further than a zone away is.
SmoothedMarker(list, index) ==
    /\ IsMarker(list, index)
    /\ \A x \in (index - Zone(list))..(index - 1) :
          (x = 0 \/ IsMarker(list, x)) => FarEnough(list, index, x)

\* the while loop of lines 763-766 for one marker. newschedule and schedule
\* are the same list, so the loop reads what earlier zones wrote. It raises
\* IndexError when schedule[start] or schedule[end] is outside the list.
SmoothZone(list, index) ==
    LET start == ZoneStart(list, index)
        end   == ZoneEnd(list, index)
    IN  IF start >= end THEN [ok |-> TRUE, list |-> list]
        ELSE IF ~(PyInRange(list, start) /\ PyInRange(list, end))
        THEN [ok |-> FALSE, list |-> list]
        ELSE [ok |-> TRUE,
              list |-> [k \in 1..Len(list) |->
                          IF start <= k - 1 /\ k - 1 < end
                          THEN val_interpolate(start, PyGet(list, start),
                                               end, PyGet(list, end), k - 1)
                          ELSE list[k]]]

\* the for loop over the markers (lines 753-767), from the k-th smoothed
\* marker on; markers that are not far enough only move lastindex
RECURSIVE SmoothMarkers(_, _, _)
SmoothMarkers(list, markers, k) ==
    IF k > Len(markers) THEN [ok |-> TRUE, list |-> list]
    ELSE LET r == SmoothZone(list, markers[k])
         IN  IF r.ok THEN SmoothMarkers(r.list, markers, k + 1) ELSE r

\* smooth_jazz without the tests of lines 749 and 756: the zone of the last
\* index is smoothed whatever the numbers are
smooth_jazzLastIndex(list) ==
    SmoothMarkers(list, <<Len(list) - 1>>, 1)

\* smooth_jazz (lines 739-768): ok is FALSE when it raised IndexError. The
\* markers are found before the loop changes the list.
smooth_jazz(list) ==
    SmoothMarkers(list,
                  SortedSeq({i \in 1..(Len(list) - 1) :
                                SmoothedMarker(list, i)}),
                  1)

\* ---- the settings the specification draws ----

NumSettings ==
    {PyInt(k) : k \in -1..MaxNum} \cup {PyFloat(k, 2) : k \in -1..MaxNum}

\* string-style settings written by the user: up to two change points
ChangePoints == {10, 25, 500, 510, 525, 975, 990}

StringSettings ==
    {<<Term(PyInt(0), p), Term(PyInt(b), q - p),
       Term(PyInt(c), CanonicalSteps - q)>> :
        <<p, q, b, c>> \in
            {t \in ChangePoints \X ChangePoints \X {0, 2} \X {2, 3} :
                t[1] < t[2]}}

\* a numeric setting with its optional final value, or a string
NumericSetting(v, f) == [str |-> FALSE, v |-> v, final |-> f, terms |-> <<>>]
StringSetting(t) ==
    [str |-> TRUE, v |-> PyInt(0), final |-> PyInt(Sentinel), terms |-> t]

InitSched ==
    /\ spc = "setting"
    /\ setting \in
         {NumericSetting(v, f) :
             v \in NumSettings, f \in NumSettings \cup {PyInt(Sentinel)}}
         \cup {StringSetting(t) : t \in StringSettings}
    /\ sched_str = <<>> /\ schedule = <<>> /\ sched_before = <<>>
    /\ GridIdle /\ RunIdle /\ CondIdle /\ BootIdle /\ MaskIdle /\ BigIdle /\ LoopIdle

\* lines 585-589: a setting that is not a string is converted; a missing
\* final value leaves num_to_schedule's default
ConvertSetting ==
    /\ spc = "setting"
    /\ sched_str' = IF setting.str THEN setting.terms
                    ELSE num_to_schedule(setting.v, setting.final)
    /\ spc' = "string"
    /\ UNCHANGED <<setting, schedule, sched_before>>
    /\ UNCHANGED notSched

\* line 2250: 'cutn_batches': eval(my_settings.cutn_batches)
EvalSetting ==
    /\ spc = "string"
    /\ schedule' = EvalSchedule(sched_str)
    /\ spc' = "list"
    /\ UNCHANGED <<setting, sched_str, sched_before>>
    /\ UNCHANGED notSched

\* lines 2315-2316: args.cutn_batches = smooth_jazz(args.cutn_batches); an
\* IndexError is not caught and ends the program
SmoothSchedule ==
    /\ spc \in {"list", "smoothed"}
    /\ sched_before' = schedule
    /\ LET r == smooth_jazz(schedule)
       IN  /\ schedule' = r.list
           /\ spc' = IF r.ok THEN "smoothed" ELSE "IndexError"
    /\ UNCHANGED <<setting, sched_str>>
    /\ UNCHANGED notSched

NextSched == ConvertSetting \/ EvalSetting \/ SmoothSchedule

SpecSched == InitSched /\ [][NextSched]_vars

----------------------------------------------------------------------------
(* Claims about schedules                                                  *)

\* the setting was a number with a final value
TwoPoint ==
    /\ ~setting.str
    /\ ~(setting.final.ty = "int" /\ setting.final.n = Sentinel)

\* C2: for all numeric v1, v2 (integer or not) the two-point schedule
\* num_to_schedule builds has v1 as its first element and v2 as its last,
\* 1000th, element.
C2_TwoPointEnds ==
    (spc = "list" /\ TwoPoint) =>
        /\ Len(schedule) = CanonicalSteps
        /\ NumEq(PyGet(schedule, 0), setting.v)
        /\ NumEq(PyGet(schedule, CanonicalSteps - 1), setting.final)

\* C5: for any schedule of canonical length and any position of a change
\* point, smooth_jazz completes normally: every index it reads or writes
\* lies inside the schedule.
C5_SmoothStaysInside == spc # "IndexError"

\* C6: a change point closer to the preceding change point than half the
\* zone is left as a hard step: the returned schedule has, right before and
\* right after it, the values the input schedule had there.
C6_CloseChangeStaysHard ==
    spc = "smoothed" =>
        \A i \in 1..(Len(sched_before) - 1) :
            (/\ IsMarker(sched_before, i)
             /\ \E x \in 1..(i - 1) :
                   /\ IsMarker(sched_before, x)
                   /\ ~FarEnough(sched_before, i, x))
            => /\ NumEq(PyGet(schedule, i - 1), PyGet(sched_before, i - 1))
               /\ NumEq(PyGet(schedule, i), PyGet(sched_before, i))

\* the setting was a number without a final value
Constant ==
    /\ ~setting.str
    /\ setting.final.ty = "int" /\ setting.final.n = Sentinel

\* b lies between a and c, whichever of them is the larger
Between(a, b, c) ==
    \/ NumLeq(a, b) /\ NumLeq(b, c)
    \/ NumLeq(c, b) /\ NumLeq(b, a)

\* C18: for all v1, v2 the two-point schedule is monotonic (non-decreasing
\* when v1 <= v2, non-increasing otherwise) and every element of it, the one
\* at the midpoint index included, lies between v1 and v2 inclusive.
C18_TwoPointMonotonicBetween ==
    (spc = "list" /\ TwoPoint) =>
        /\ \A i \in 1..Len(schedule) :
              Between(setting.v, schedule[i], setting.final)
        /\ \A i \in 1..(Len(schedule) - 1) :
              IF NumLeq(setting.v, setting.final)
              THEN NumLeq(schedule[i], schedule[i + 1])
              ELSE NumLeq(schedule[i + 1], schedule[i])

\* C19: every schedule num_to_schedule produces, constant or two-point, has
\* exactly the canonical length (1000), and smooth_jazz returns a schedule
\* as long as the one it was given.
C19_LengthKept ==
    /\ (spc = "list" /\ ~setting.str) => Len(schedule) = CanonicalSteps
    /\ spc = "smoothed" => Len(schedule) = Len(sched_before)

\* a two-point schedule was smoothed, and smoothing changed it
C19_Witness ==
    /\ spc = "smoothed" /\ TwoPoint
    /\ schedule # sched_before
    /\ Len(schedule) = CanonicalSteps

\* C20: for every scalar v the constant schedule, num_to_schedule without a
\* final value, has every element equal to v.
C20_ConstantSchedule ==
    (spc = "list" /\ Constant) =>
        \A i \in 1..Len(schedule) : schedule[i] = setting.v

\* a constant schedule of a number that is not an integer
C20_Witness ==
    /\ spc = "list" /\ Constant
    /\ setting.v.ty = "float" /\ setting.v.d = 2
    /\ Len(schedule) = CanonicalSteps
    /\ schedule[CanonicalSteps] = setting.v

\* the list has no place where the number changes
NoDiscontinuity(list) ==
    \A i \in 1..(Len(list) - 1) : NumEq(list[i], list[i + 1])

\* C21: smooth_jazz applied to a schedule with no discontinuities (all
\* elements equal) returns it unchanged, so applying it any number of times
\* to such a schedule yields the same schedule.
C21_SmoothKeepsConstant ==
    (spc \in {"smoothed", "IndexError"} /\ NoDiscontinuity(sched_before)) =>
        /\ spc = "smoothed"
        /\ schedule = sched_before

\* smooth_jazz was applied to a schedule of canonical length whose elements
\* are all the same number, one made from two equal end points
C21_Witness ==
    /\ spc = "smoothed" /\ TwoPoint
    /\ Len(sched_before) = CanonicalSteps
    /\ NoDiscontinuity(sched_before)
    /\ sched_before = EvalSchedule(sched_str)
    /\ schedule = sched_before

----------------------------------------------------------------------------
(* do_run.do_weights (src/prd.py:985-1050)                                 *)
(*                                                                         *)
(* A prompt is modelled by the list of the weights its entries carry: the  *)
(* embeddings come from the clip managers, which compute them outside this *)
(* file, and do_weights only concatenates them alongside the weights.      *)

ClipManagers == 2    \* len(clip_managers)

AddNum(a, b) == PyFloat(a.n * b.d + b.n * a.d, a.d * b.d)
AbsNum(a) == [a EXCEPT !.n = Abs(a.n)]
\* a / b for b # 0
DivNum(a, b) == PyFloat(a.n * b.d, a.d * b.n)

\* tensor.sum()
RECURSIVE SumNums(_)
SumNums(w) ==
    IF w = <<>> THEN PyFloat(0, 1) ELSE AddNum(Head(w), SumNums(Tail(w)))

\* sum of the absolute values of the weights
SumAbs(w) == SumNums([i \in 1..Len(w) |-> AbsNum(w[i])])

\* x < 1e-3 for x >= 0
Negligible(x) == 1000 * x.n < x.d

NoPrompts   == "RuntimeError: No prompts provided."
ZeroWeights == "RuntimeError: The weights must not sum to 0."
NoneWeights == "AttributeError: 'NoneType' object has no attribute 'sum'"

\* clip_manager.prompt_weights: None, or a tensor of weights
NoneTensor == [set |-> FALSE, w |-> <<>>]
Tensor(w)  == [set |-> TRUE, w |-> w]

\* line 1050, dividing by the sum of the absolute values instead
NormalizeBySumAbs(w) == [i \in 1..Len(w) |-> DivNum(w[i], SumAbs(w))]

\* clip_manager.prompt_weights /= clip_manager.prompt_weights.sum().abs()
\* (line 1050)
Normalize(w) == [i \in 1..Len(w) |-> DivNum(w[i], AbsNum(SumNums(w)))]

\* Line 1048 with the test forgotten for sums that are negligible but not 0
IsNegligibleSumOnlyZero(w) == SumNums(w).n = 0

\* clip_manager.prompt_weights.sum().abs() < 1e-3 (line 1048)
IsNegligibleSum(w) == Negligible(AbsNum(SumNums(w)))

\* the body of 'for clip_manager in clip_managers' (lines 1014-1050) for one
\* clip manager whose prompt_weights are pw; exc is the exception it raises
\* (sp, psp: sample_prompt and print_sample_prompt; sip, psip: the same for
\* the image prompt)
ManagerWeights(pw, sp, psp, sip, psip, image_prompts) ==
    LET pw1 == IF sp # <<>> /\ psp THEN Tensor(sp) ELSE pw
        pw2 == IF sip # <<>> /\ psip
               THEN IF pw1.set THEN Tensor(sip \o pw1.w) ELSE Tensor(sip)
               ELSE pw1
    IN  IF sp = <<>> /\ ~image_prompts
        THEN [pw |-> pw2, exc |-> NoPrompts]
        ELSE IF ~pw2.set THEN [pw |-> pw2, exc |-> NoneWeights]
        ELSE IF IsNegligibleSum(pw2.w) THEN [pw |-> pw2, exc |-> ZeroWeights]
        ELSE [pw |-> Tensor(Normalize(pw2.w)), exc |-> "none"]

\* the for loop over the clip managers from the k-th on: the first exception
\* ends it and leaves the later managers as they are
RECURSIVE ManagersLoop(_, _, _, _, _, _, _)
ManagersLoop(pws, k, sp, psp, sip, psip, ips) ==
    IF k > Len(pws) THEN [pws |-> pws, exc |-> "none"]
    ELSE LET r == ManagerWeights(pws[k], sp, psp, sip, psip, ips)
             next == [pws EXCEPT ![k] = r.pw]
         IN  IF r.exc # "none" THEN [pws |-> next, exc |-> r.exc]
             ELSE ManagersLoop(next, k + 1, sp, psp, sip, psip, ips)

\* do_weights(s, clip_managers) (lines 985-1050) in the state st =
\* [pws, prev, previmg, exc]; a call after an exception does not happen
do_weights(s, frame_prompt, image_prompt, image_prompts, st) ==
    IF st.exc # "none" THEN st
    ELSE
    LET psp  == s \in DOMAIN frame_prompt
        sp   == IF psp THEN frame_prompt[s] ELSE st.prev
        psip == s \in DOMAIN image_prompt
        sip  == IF psip THEN image_prompt[s] ELSE st.previmg
        r    == ManagersLoop(st.pws, 1, sp, psp, sip, psip, image_prompts)
    IN  [pws |-> r.pws, prev |-> sp, previmg |-> sip, exc |-> r.exc]

----------------------------------------------------------------------------
(* do_run and the batch loop (src/prd.py:884-1426, 2484-2652)              *)

Steps      == 12   \* my_settings.steps of the runs explored
MaxBatches == 2    \* n_batches is 1..MaxBatches
MaxStat    == 2    \* measured brightness and contrast are 0..MaxStat
None       == 0    \* steps_per_checkpoint = None

\* lines 2114-2130: the list of checkpoint steps; in generate-init mode it
\* is [int(steps * geninitamount)], geninitamount being percent / 100
IntermediateSaves(steps, list, geninit, percent) ==
    IF geninit THEN {(steps * percent) \div 100} ELSE list

\* lines 2133-2141 for a setting that is a number of checkpoints
StepsPerCheckpoint(steps, skip_steps, count) ==
    IF count # 0
    THEN LET k == (steps - skip_steps - 1) \div (count + 1)
         IN  IF k > 0 THEN k ELSE 1
    ELSE steps + 10

\* lines 462-471: --geninit with a percentage outside 1..100 means 20%
GenInitPercent(geninit) == IF geninit > 0 /\ geninit <= 100 THEN geninit ELSE 20

Adjust(on, start, threshold) ==
    [adjust |-> on, start |-> start, threshold |-> threshold]

\* the prompts the runs use, by their weights
Weights(ns) == [i \in 1..Len(ns) |-> PyFloat(ns[i], 1)]

FramePrompts ==
    { (0 :> Weights(<<1>>)),
      (0 :> Weights(<<2, -1>>)),
      (0 :> Weights(<<3, 1>>)) @@ (4 :> Weights(<<2, -3>>)),
      (0 :> Weights(<<1, -1>>)),
      (0 :> <<PyFloat(1, 2000)>>),
      (0 :> Weights(<<2>>)) @@ (3 :> <<PyFloat(-1, 1), PyFloat(2001, 2000)>>),
      (0 :> <<>>) }

ImagePrompts == { (0 :> <<>>), (0 :> Weights(<<1>>)) }

\* the settings of a run: checkpoints are a list of steps (ckpt_list), a
\* number of checkpoints (ckpt_count), or none
RunSettings(skip, stop, isList, list, count, geninit, sharpen, mask, fix, interval, adjusts, fp, ip, batches) ==
    [steps |-> Steps, skip_steps |-> skip, stop_early |-> stop,
     display_rate |-> 5, n_batches |-> batches, animation_mode |-> "None",
     intermediate_saves |->
        IF isList \/ geninit # 0
        THEN IntermediateSaves(Steps, list, geninit # 0,
                               GenInitPercent(geninit))
        ELSE {},
     steps_per_checkpoint |->
        IF isList \/ geninit # 0 THEN None
        ELSE StepsPerCheckpoint(Steps, skip, count),
     geninit |-> geninit # 0,
     intermediates_in_subfolder |-> TRUE,
     sharpen_preset |-> sharpen, keep_unsharp |-> TRUE,
     render_mask |-> mask,
     fix_brightness_contrast |-> fix, adjustment_interval |-> interval,
     high_brightness |-> adjusts[1], low_brightness |-> adjusts[2],
     high_contrast |-> adjusts[3], low_contrast |-> adjusts[4],
     prompts_series |-> <<fp>>, image_prompts_series |-> <<ip>>,
     image_prompts |-> ip[0] # <<>>]

AdjustSettings ==
    { <<Adjust(TRUE, 0, 1), Adjust(TRUE, 0, 1), Adjust(TRUE, 0, 1),
        Adjust(TRUE, 0, 1)>>,
      <<Adjust(TRUE, 2, 1), Adjust(FALSE, 0, 1), Adjust(TRUE, 3, 1),
        Adjust(TRUE, 1, 1)>>,
      <<Adjust(FALSE, 0, 1), Adjust(TRUE, 2, 1), Adjust(FALSE, 0, 1),
        Adjust(TRUE, 0, 1)>> }

NoAdjust == <<Adjust(FALSE, 0, 1), Adjust(FALSE, 0, 1), Adjust(FALSE, 0, 1),
              Adjust(FALSE, 0, 1)>>

\* checkpoint settings: <<is a list, the list, the count, --geninit>>
CheckpointSettings ==
    { <<TRUE, {}, 0, 0>>, <<TRUE, {3, 5}, 0, 0>>, <<TRUE, {4, Steps}, 0, 0>>,
      <<FALSE, {}, 2, 0>>, <<FALSE, {}, 0, 0>>, <<TRUE, {}, 0, 25>>,
      <<FALSE, {}, 3, 50>> }

\* runs that differ in their prompts
PromptRuns ==
    { RunSettings(skip, 0, c[1], c[2], c[3], c[4], "Off", FALSE, FALSE,
                  1, NoAdjust, fp, ip, batches) :
        skip \in {0, 2}, c \in {<<TRUE, {}, 0, 0>>, <<TRUE, {3, 5}, 0, 0>>},
        fp \in FramePrompts, ip \in ImagePrompts, batches \in 1..MaxBatches }

\* runs that differ in what they save
SavingRuns ==
    { [RunSettings(skip, stop, c[1], c[2], c[3], c[4], sharpen[1], mask,
                   FALSE, 1, NoAdjust, (0 :> Weights(<<2, -1>>)),
                   (0 :> <<>>), batches)
         EXCEPT !.keep_unsharp = sharpen[2]] :
        skip \in {0, 2}, stop \in {0, 1}, c \in CheckpointSettings,
        sharpen \in {<<"Off", TRUE>>, <<"Fast", TRUE>>, <<"Fast", FALSE>>},
        mask \in BOOLEAN, batches \in 1..MaxBatches }

\* runs with self-correction
CorrectedRuns ==
    { RunSettings(skip, stop, c[1], c[2], c[3], c[4], "Off", FALSE, TRUE,
                  interval, adjusts, (0 :> Weights(<<2, -1>>)),
                  (0 :> <<>>), 1) :
        skip \in {0, 2}, stop \in {0, 1},
        c \in {<<TRUE, {}, 0, 0>>, <<TRUE, {3, 5}, 0, 0>>,
               <<FALSE, {}, 2, 0>>},
        interval \in {1, 2}, adjusts \in AdjustSettings }

\* runs of a series of prompts, one per image of the batch, whose second
\* entry may be empty
SeriesRuns ==
    { [RunSettings(0, 0, TRUE, {}, 0, 0, "Off", FALSE, FALSE, 1, NoAdjust,
                   (0 :> Weights(<<1>>)), ip, batches)
         EXCEPT !.prompts_series = <<(0 :> Weights(<<1>>)), fp>>] :
        fp \in {(0 :> <<>>), (0 :> Weights(<<2>>))}, ip \in ImagePrompts,
        batches \in 2..MaxBatches }

\* runs that start past a step that has a prompt of its own
SkippingRuns ==
    { RunSettings(4, 0, TRUE, {}, 0, 0, "Off", FALSE, FALSE, 1, NoAdjust,
                  fp, ip, 1) :
        fp \in {(0 :> Weights(<<3, 1>>)) @@ (4 :> Weights(<<2, -3>>)),
                (0 :> Weights(<<2>>)) @@ (3 :> Weights(<<1, 1>>))},
        ip \in ImagePrompts }

NoAdjustment == [kind |-> "none", s |-> 0, brightness |-> 0, contrast |-> 0]

\* the state before the batch loop (line 2488); nothing has been embedded
InitRun ==
    /\ rpc = "batch"
    /\ args \in PromptRuns \cup SavingRuns \cup CorrectedRuns \cup SeriesRuns
                 \cup SkippingRuns
    /\ batch_image = 0 /\ cur_t = 0 /\ actual_run_steps = 0
    /\ init = "none" /\ imgToSharpen = FALSE
    /\ prompt_weights = [k \in 1..ClipManagers |-> NoneTensor]
    /\ prev_sample_prompt = <<>> /\ prev_sample_image_prompt = <<>>
    /\ exc = "none" /\ saved = <<>> /\ steps_run = 0
    /\ adjusted = NoAdjustment /\ cleaned = FALSE /\ app_error = FALSE
    /\ skip_timesteps = 0 /\ sample_init = "none" /\ sample_j = 0
    /\ executed = <<>>
    /\ GridIdle /\ SchedIdle /\ CondIdle /\ BootIdle /\ MaskIdle /\ BigIdle /\ LoopIdle

\* Every image of the batch takes the first prompt of the series
FrameOfFirst(series, frame_num) == series[1]

\* lines 945-980: the prompts of the frame; without animation frame_num is
\* batch_num, and past the end of the series its last entry is used
FrameOf(series, frame_num) ==
    IF frame_num >= Len(series) THEN series[Len(series)]
    ELSE series[frame_num + 1]

frame_prompt == FrameOf(args.prompts_series, batch_image)
image_prompt == FrameOf(args.image_prompts_series, batch_image)

\* the keys of a prompt dictionary are integers (lines 633-650); str(i) is a
\* string
IntKey(k) == [type |-> "int", key |-> k]
StrKey(k) == [type |-> "str", key |-> k]
Keys(prompt) == {IntKey(k) : k \in DOMAIN prompt}

\* lines 1054-1059: the first i from skip_steps down to 1 with
\* str(i) in frame_prompt.keys(), or 0 when there is none
InitialPromptStep(prompt, skip_steps) ==
    LET found == {i \in 1..skip_steps : StrKey(i) \in Keys(prompt)}
    IN  IF found = {} THEN 0
        ELSE CHOOSE i \in found : \A j \in found : j <= i

Saved(file, step) == [file |-> file, step |-> step, batch |-> batch_image]

\* line 2488-2491 and do_run up to its while loop (lines 884-1249): the
\* next image of the batch starts, or the batch is over. With a render
\* mask, line 1103 reads the global init_masked, which only the tile loop
\* of a go-big pass binds (line 2599): NameError
Batch ==
    /\ rpc = "batch"
    /\ IF batch_image < args.n_batches
       THEN LET st == [pws |-> prompt_weights, prev |-> <<>>,
                       previmg |-> <<>>, exc |-> "none"]
                w  == do_weights(InitialPromptStep(frame_prompt,
                                                   args.skip_steps),
                                 frame_prompt, image_prompt,
                                 args.image_prompts, st)
            IN  /\ prompt_weights' = w.pws
                /\ prev_sample_prompt' = w.prev
                /\ prev_sample_image_prompt' = w.previmg
                /\ exc' = IF w.exc = "none" /\ args.render_mask
                          THEN "NameError" ELSE w.exc
                /\ IF exc' # "none"
                   THEN /\ rpc' = "finally"
                        /\ UNCHANGED <<cur_t, actual_run_steps, init,
                                       imgToSharpen, steps_run>>
                   ELSE /\ rpc' = "while"
                        /\ cur_t' = args.steps - args.skip_steps - 1
                        /\ actual_run_steps' = args.skip_steps
                        /\ init' = "starting_init"
                        /\ imgToSharpen' = FALSE
                        /\ steps_run' = 0
       ELSE /\ rpc' = "finally"
            /\ UNCHANGED <<cur_t, actual_run_steps, init, imgToSharpen,
                           prompt_weights, prev_sample_prompt,
                           prev_sample_image_prompt, exc, steps_run>>
    /\ executed' = IF rpc' = "while" THEN <<>> ELSE executed
    /\ UNCHANGED <<args, batch_image, saved, adjusted, cleaned, app_error>>
    /\ UNCHANGED <<skip_timesteps, sample_init, sample_j>>
    /\ UNCHANGED notRun

\* Every call of do_sample_fn starts again from skip_steps
SkipTimestepsOfStart(t) == args.skip_steps

\* line 1251: _skip of do_sample_fn(init, my_settings.steps - cur_t - 1)
SkipTimesteps(t) == args.steps - t - 1

\* line 1250: while cur_t >= my_settings.stop_early the sampling is started
\* again from the step steps - cur_t - 1, on init (lines 1251, 1214-1242);
\* otherwise do_run returns and the batch loop goes on (lines 1426,
\* 2639-2642)
While ==
    /\ rpc = "while"
    /\ IF cur_t >= args.stop_early
       THEN /\ rpc' = "for"
            /\ skip_timesteps' = SkipTimesteps(cur_t)
            /\ sample_init' = init
            /\ sample_j' = 0
            /\ UNCHANGED batch_image
       ELSE /\ rpc' = "batch" /\ batch_image' = batch_image + 1
            /\ UNCHANGED <<skip_timesteps, sample_init, sample_j>>
    /\ UNCHANGED executed
    /\ UNCHANGED <<args, cur_t, actual_run_steps, init, imgToSharpen,
                   prompt_weights, prev_sample_prompt,
                   prev_sample_image_prompt, exc, saved, steps_run,
                   adjusted, cleaned, app_error>>
    /\ UNCHANGED notRun

\* No step is a checkpoint step
IntermediateStepNever(ars) == FALSE

\* lines 1262-1267: whether the step is a checkpoint step
IntermediateStep(ars) ==
    IF args.steps_per_checkpoint # None
    THEN ars % args.steps_per_checkpoint = 0 /\ ars > 0
    ELSE ars \in args.intermediate_saves

\* Adjustment with the test s < steps * .3 forgotten
AdjustmentAnyStep(s, brightness, contrast) ==
    IF ~(s % args.adjustment_interval = 0 /\ args.fix_brightness_contrast)
    THEN "none"
    ELSE IF /\ args.high_brightness.adjust
            /\ s > args.high_brightness.start
            /\ brightness > args.high_brightness.threshold
    THEN "high_brightness"
    ELSE IF /\ args.low_brightness.adjust
            /\ s > args.low_brightness.start
            /\ brightness < args.low_brightness.threshold
    THEN "low_brightness"
    ELSE IF /\ args.high_contrast.adjust
            /\ s > args.high_contrast.start
            /\ contrast > args.high_contrast.threshold
    THEN "high_contrast"
    ELSE IF /\ args.low_contrast.adjust
            /\ s > args.low_contrast.start
            /\ contrast < args.low_contrast.threshold
    THEN "low_contrast"
    ELSE "none"

\* lines 1395-1422: the correction applied at step s for the measured
\* brightness and contrast, the first of the four whose test holds
Adjustment(s, brightness, contrast) ==
    IF ~(/\ s % args.adjustment_interval = 0
         /\ 10 * s < 3 * args.steps
         /\ args.fix_brightness_contrast)
    THEN "none"
    ELSE IF /\ args.high_brightness.adjust
            /\ s > args.high_brightness.start
            /\ brightness > args.high_brightness.threshold
    THEN "high_brightness"
    ELSE IF /\ args.low_brightness.adjust
            /\ s > args.low_brightness.start
            /\ brightness < args.low_brightness.threshold
    THEN "low_brightness"
    ELSE IF /\ args.high_contrast.adjust
            /\ s > args.high_contrast.start
            /\ contrast > args.high_contrast.threshold
    THEN "high_contrast"
    ELSE IF /\ args.low_contrast.adjust
            /\ s > args.low_contrast.start
            /\ contrast < args.low_contrast.threshold
    THEN "low_contrast"
    ELSE "none"

\* lines 1339-1342: with sharpening on and keep_unsharp, the unsharpened
\* copy is saved under unsharpenFolder, a name that nothing binds: NameError
UnsharpenFolderUnbound ==
    /\ args.sharpen_preset # "Off" /\ args.animation_mode = "None"
    /\ args.keep_unsharp

\* lines 1336-1354: the files written when cur_t == -1
FinalFiles(ars) ==
    (IF args.animation_mode # "None" THEN <<Saved("prevFrame", ars)>>
     ELSE <<>>)
    \o (IF args.sharpen_preset # "Off" /\ args.animation_mode = "None"
        THEN <<>>
        ELSE (IF args.render_mask THEN <<Saved("progress", ars)>> ELSE <<>>)
             \o <<Saved("final", ars)>>)

\* The checkpoint of generate-init mode does not interrupt the run
GenInitInterruptsNever(ars) == FALSE

\* lines 1325-1334: in generate-init mode the checkpoint of the explicit
\* list raises KeyboardInterrupt after geninit.png is written
GenInitInterrupts(ars) ==
    /\ args.steps_per_checkpoint = None
    /\ ars \in args.intermediate_saves
    /\ args.geninit

\* lines 1315-1334: the files written by the save block before the final
\* ones
BlockFiles(ars, t) ==
    (IF ars % args.display_rate = 0 \/ ars = 1 \/ t = -1
     THEN <<Saved("progress", ars)>> ELSE <<>>)
    \o (IF IntermediateStep(ars) THEN <<Saved("partial", ars)>> ELSE <<>>)
    \o (IF args.steps_per_checkpoint = None
            /\ ars \in args.intermediate_saves /\ args.geninit
        THEN <<Saved("geninit", ars)>> ELSE <<>>)

\* lines 1381-1383: do_weights(my_settings.steps - cur_t - 1, ...) is
\* called once more, before, when the save block was entered
StepWeights(t, inBlock) ==
    LET st == [pws |-> prompt_weights, prev |-> prev_sample_prompt,
               previmg |-> prev_sample_image_prompt, exc |-> "none"]
        w1 == IF inBlock
              THEN do_weights(args.steps - t - 1, frame_prompt, image_prompt,
                              args.image_prompts, st)
              ELSE st
    IN  do_weights(args.steps - t - 1, frame_prompt, image_prompt,
                   args.image_prompts, w1)

\* cur_t is decremented and stop_early is forgotten
NextCurTNoStop(t) == t - 1

\* lines 1258-1260: cur_t -= 1, and -1 when it falls below stop_early
NextCurT(t) == IF t - 1 < args.stop_early THEN -1 ELSE t - 1

\* one iteration of 'for j, sample in enumerate(samples)' (lines 1252-1425):
\* the sampler has run one denoising step and yields its preview
Sample ==
    /\ rpc = "for"
    /\ LET ars == actual_run_steps + 1
           t   == NextCurT(cur_t)
           inBlock == \/ ars % args.display_rate = 0
                      \/ t = -1
                      \/ IntermediateStep(ars)
           interrupt == inBlock /\ GenInitInterrupts(ars)
           files == IF ~inBlock THEN <<>>
                    ELSE IF interrupt \/ t # -1 THEN BlockFiles(ars, t)
                    ELSE BlockFiles(ars, t) \o FinalFiles(ars)
           s   == args.steps - t
           unbound == inBlock /\ ~interrupt /\ t = -1
                      /\ UnsharpenFolderUnbound
       IN  /\ actual_run_steps' = ars
           /\ executed' = Append(executed, skip_timesteps + sample_j)
           /\ sample_j' = sample_j + 1
           /\ cur_t' = t
           /\ steps_run' = steps_run + 1
           /\ saved' = saved \o files
           /\ IF interrupt \/ unbound
              THEN /\ exc' = IF interrupt THEN "KeyboardInterrupt"
                             ELSE "NameError"
                   /\ rpc' = "finally"
                   /\ imgToSharpen' = (unbound \/ imgToSharpen)
                   /\ UNCHANGED <<init, prompt_weights, prev_sample_prompt,
                                  prev_sample_image_prompt, adjusted>>
              ELSE \E w \in {StepWeights(t, inBlock)} :
                   /\ imgToSharpen' =
                        IF inBlock /\ t = -1
                        THEN (args.sharpen_preset # "Off"
                              /\ args.animation_mode = "None")
                             \/ imgToSharpen
                        ELSE imgToSharpen
                   /\ prompt_weights' = w.pws
                   /\ prev_sample_prompt' = w.prev
                   /\ prev_sample_image_prompt' = w.previmg
                   /\ exc' = w.exc
                   /\ IF w.exc # "none"
                      THEN rpc' = "finally" /\ UNCHANGED <<init, adjusted>>
                      ELSE \E brightness \in 0..MaxStat,
                              contrast \in 0..MaxStat :
                           \E adj \in {Adjustment(s, brightness, contrast)} :
                           IF adj # "none"
                           THEN /\ rpc' = "while"
                                /\ init' = "adjusted"
                                /\ adjusted' = [kind |-> adj, s |-> s,
                                                brightness |-> brightness,
                                                contrast |-> contrast]
                           ELSE /\ rpc' = IF t = -1 THEN "while" ELSE "for"
                                /\ UNCHANGED <<init, adjusted>>
    /\ UNCHANGED <<args, batch_image, cleaned, app_error>>
    /\ UNCHANGED <<skip_timesteps, sample_init>>
    /\ UNCHANGED notRun

\* lines 2644-2652: KeyboardInterrupt is caught and passed, the finally
\* block runs in every case, any other exception ends the program
Finally ==
    /\ rpc = "finally"
    /\ cleaned' = TRUE
    /\ app_error' = (exc \notin {"none", "KeyboardInterrupt"})
    /\ rpc' = "exit"
    /\ UNCHANGED <<args, batch_image, cur_t, actual_run_steps, init,
                   imgToSharpen, prompt_weights, prev_sample_prompt,
                   prev_sample_image_prompt, exc, saved, steps_run,
                   adjusted>>
    /\ UNCHANGED <<skip_timesteps, sample_init, sample_j, executed>>
    /\ UNCHANGED notRun

NextRun == Batch \/ While \/ Sample \/ Finally

SpecRun == InitRun /\ [][NextRun]_vars

\* a step of the loop of an image (lines 1250-1425): it runs one denoising
\* step, or enters or leaves the for loop
LoopStep ==
    /\ rpc \in {"while", "for"}
    /\ rpc' \in {"while", "for", "batch", "finally"}
    /\ steps_run' \in {steps_run, steps_run + 1}

\* the program runs on: in its loop no step waits for anything
FairSpecRun == SpecRun /\ WF_<<rpc, steps_run>>(LoopStep)

----------------------------------------------------------------------------
(* Claims about do_weights and the denoising loop                          *)

One == PyFloat(1, 1)

\* do_weights has normalized the weights of every clip manager that has any
Normalized == exc = "none" /\ \E k \in 1..ClipManagers : prompt_weights[k].set

\* C3 (as stated): after do_weights normalizes a weight vector whose sum is
\* not negligible, the sum of the absolute values of the weights is 1, also
\* for vectors mixing positive and negative weights.
C3_SumOfAbsIsOne ==
    exc = "none" =>
        \A k \in 1..ClipManagers :
            prompt_weights[k].set =>
                NumEq(SumAbs(prompt_weights[k].w), One)

\* C3 (amended): after do_weights normalizes a weight vector whose sum is
\* not negligible, the absolute value of the sum of the weights is 1, also
\* for vectors mixing positive and negative weights.
C3_AbsOfSumIsOne ==
    exc = "none" =>
        \A k \in 1..ClipManagers :
            prompt_weights[k].set =>
                NumEq(AbsNum(SumNums(prompt_weights[k].w)), One)

\* normalized weights of both signs are in use while the loop samples
C3_Witness ==
    /\ rpc = "for" /\ steps_run > 0 /\ exc = "none"
    /\ \A k \in 1..ClipManagers :
          /\ prompt_weights[k].set
          /\ \E i, j \in 1..Len(prompt_weights[k].w) :
                prompt_weights[k].w[i].n < 0 /\ prompt_weights[k].w[j].n > 0
          /\ ~NumEq(SumAbs(prompt_weights[k].w), One)

\* the last do_weights call assembled its weights from a text prompt alone,
\* and they sum to a negligible amount
NegligiblePrompt ==
    /\ prev_sample_image_prompt = <<>>
    /\ prev_sample_prompt # <<>>
    /\ Negligible(AbsNum(SumNums(prev_sample_prompt)))

\* C4: when a provider's weights sum to a negligible amount, do_weights
\* raises its error instead of normalizing: the weights stay undivided, the
\* run of the image ends, and no denoising step runs with them.
C4_NegligibleSumFails ==
    /\ [](\A k \in 1..ClipManagers :
            (/\ prompt_weights[k].set
             /\ Negligible(AbsNum(SumNums(prompt_weights[k].w))))
                => exc = ZeroWeights /\ rpc \in {"finally", "exit"})
    /\ [](NegligiblePrompt =>
            /\ exc = ZeroWeights
            /\ prompt_weights[1] = Tensor(prev_sample_prompt))
    /\ [][exc = ZeroWeights =>
            steps_run' = steps_run /\ prompt_weights' = prompt_weights]_vars
    /\ [](rpc = "exit" /\ exc = ZeroWeights => app_error)

\* a prompt change in the middle of a run brought weights that are not zero
\* but sum to less than 1e-3, and the program ended on the error
C4_Witness ==
    /\ rpc = "exit" /\ exc = ZeroWeights /\ app_error
    /\ steps_run > 0
    /\ NegligiblePrompt
    /\ SumNums(prev_sample_prompt).n # 0

\* the step just taken reached the checkpoint of generate-init mode
GenInitCheckpoint ==
    /\ args.geninit /\ rpc = "for"
    /\ actual_run_steps' \in args.intermediate_saves

\* C7: in generate-init mode, when the run-step counter reaches the
\* checkpoint step the preview is written (checkpoint file, geninit.png)
\* before the loop ends, no denoising step runs after it, the finally block
\* runs and the program does not end on an error.
C7_GenInitControlledExit ==
    /\ [][GenInitCheckpoint =>
            /\ exc' = "KeyboardInterrupt" /\ rpc' = "finally"
            /\ Len(saved') >= 2
            /\ saved'[Len(saved') - 1] =
                   [file |-> "partial", step |-> actual_run_steps',
                    batch |-> batch_image]
            /\ saved'[Len(saved')] =
                   [file |-> "geninit", step |-> actual_run_steps',
                    batch |-> batch_image]]_vars
    /\ [][exc = "KeyboardInterrupt" =>
            /\ steps_run' = steps_run /\ saved' = saved
            /\ rpc' = "exit" /\ cleaned' /\ ~app_error']_vars

\* a generate-init run ended at its checkpoint, before the last step
C7_Witness ==
    /\ rpc = "exit" /\ exc = "KeyboardInterrupt" /\ args.geninit
    /\ cleaned /\ ~app_error
    /\ actual_run_steps \in args.intermediate_saves
    /\ cur_t > 0 /\ steps_run > 0

\* the final saves of the image b of the batch
FinalSaves(b) ==
    {i \in 1..Len(saved) : saved[i].file = "final" /\ saved[i].batch = b}

\* C8: for every image whose loop reached its last step the final image is
\* written to the batch folder exactly once, with sharpening on or off and
\* with or without a render mask.
C8_FinalSavedOnce ==
    \A b \in 0..(batch_image - 1) : Cardinality(FinalSaves(b)) = 1

\* the step just taken applied a correction
Corrects == rpc = "for" /\ adjusted' # adjusted

\* the settings of the adjustment of the given kind
AdjustOf(kind) ==
    CASE kind = "high_brightness" -> args.high_brightness
      [] kind = "low_brightness"  -> args.low_brightness
      [] kind = "high_contrast"   -> args.high_contrast
      [] kind = "low_contrast"    -> args.low_contrast

\* what was measured lies beyond the threshold of the adjustment
Beyond(a) ==
    CASE a.kind = "high_brightness" ->
            a.brightness > args.high_brightness.threshold
      [] a.kind = "low_brightness" ->
            a.brightness < args.low_brightness.threshold
      [] a.kind = "high_contrast" ->
            a.contrast > args.high_contrast.threshold
      [] a.kind = "low_contrast" ->
            a.contrast < args.low_contrast.threshold

\* C9: a correction is applied at step s only if self-correction is on, s is
\* a multiple of the interval, s < 0.3 * steps, s is past the adjustment's
\* start step and the measure is beyond its threshold; one step applies at
\* most one adjustment, and none is ever applied at s >= 0.3 * steps.
C9_CorrectionOnlyWhenDue ==
    /\ [][Corrects =>
            /\ adjusted'.kind \in {"high_brightness", "low_brightness",
                                   "high_contrast", "low_contrast"}
            /\ adjusted'.s = args.steps - cur_t'
            /\ args.fix_brightness_contrast
            /\ adjusted'.s % args.adjustment_interval = 0
            /\ 10 * adjusted'.s < 3 * args.steps
            /\ AdjustOf(adjusted'.kind).adjust
            /\ adjusted'.s > AdjustOf(adjusted'.kind).start
            /\ Beyond(adjusted')
            /\ steps_run' = steps_run + 1
            /\ rpc' = "while" /\ init' = "adjusted"]_vars
    /\ [][(rpc = "for" /\ 10 * (args.steps - cur_t') >= 3 * args.steps) =>
            adjusted' = adjusted /\ init' = init]_vars

\* the fourth adjustment was applied late in the window, with an earlier
\* adjustment switched on but not due
C9_Witness ==
    /\ adjusted.kind = "low_contrast" /\ init = "adjusted"
    /\ args.high_contrast.adjust /\ adjusted.s <= args.high_contrast.start
    /\ adjusted.contrast < args.low_contrast.threshold
    /\ 10 * (adjusted.s + 1) >= 3 * args.steps
    /\ rpc = "for"

\* the image about to start has no text prompt for its frame and there are
\* no image prompts
NoUsablePrompt ==
    /\ rpc = "batch" /\ batch_image < args.n_batches
    /\ ~args.image_prompts
    /\ LET n == Len(args.prompts_series)
           fp == args.prompts_series[IF batch_image >= n THEN n
                                     ELSE batch_image + 1]
       IN  \A s \in DOMAIN fp : fp[s] = <<>>

\* the files written for the image b of the batch
OutputOf(b) == {i \in 1..Len(saved) : saved[i].batch = b}

\* C12: when an image has no text prompt for its frame and no image prompt,
\* do_weights raises its error before the first denoising step of the
\* image, no output is written for the image, and the error is fatal.
C12_NoPromptIsFatal ==
    /\ [][NoUsablePrompt =>
            /\ exc' = NoPrompts /\ rpc' = "finally"
            /\ steps_run' = steps_run /\ saved' = saved]_vars
    /\ [][exc = NoPrompts => steps_run' = steps_run /\ saved' = saved]_vars
    /\ [](exc = NoPrompts => OutputOf(batch_image) = {})
    /\ [](rpc = "exit" /\ exc = NoPrompts => app_error)

\* the second image of a batch had no prompt, after a first image that was
\* rendered and saved
C12_Witness ==
    /\ rpc = "exit" /\ exc = NoPrompts /\ app_error
    /\ batch_image = 1
    /\ OutputOf(0) # {} /\ OutputOf(1) = {}
    /\ \E k \in 1..ClipManagers : prompt_weights[k].set

\* C23: after a brightness/contrast correction at step s, sampling resumes
\* from the step that follows s with the corrected image as the working
\* estimate: the remaining-step counter is not reset, no step index is
\* executed twice, and steps already completed are not redone.
C23_ResumeAfterCorrection ==
    /\ [](rpc # "idle" =>
            \A i \in 1..Len(executed) : executed[i] = args.skip_steps + i - 1)
    /\ [][Corrects => rpc' = "while" /\ init' = "adjusted"]_vars
    /\ [][(rpc = "while" /\ rpc' = "for") =>
            /\ cur_t' = cur_t /\ actual_run_steps' = actual_run_steps
            /\ sample_init' = init
            /\ skip_timesteps' = args.skip_steps + Len(executed)]_vars

\* two corrections were applied, and steps were run on the image the second
\* one corrected
C23_Witness ==
    /\ rpc = "for" /\ sample_init = "adjusted" /\ sample_j >= 2
    /\ adjusted.kind # "none" /\ adjusted.s > args.skip_steps + 2
    /\ skip_timesteps = adjusted.s - 1
    /\ Len(executed) = steps_run

\* the denoising steps between skip_steps and the early stop
StepCount == args.steps - args.skip_steps - args.stop_early

\* the loop of the current image ends with this step
LoopEnds == rpc \in {"while", "for"} /\ rpc' \notin {"while", "for"}

\* C28: for every configuration with 0 <= skip_steps < steps and
\* 0 <= stop_early < steps - skip_steps, the denoising loop of one image
\* terminates, and it executes exactly steps - skip_steps - stop_early
\* denoising steps, with the remaining-step counter strictly decreasing on
\* every step, whatever number of brightness/contrast corrections occur.
C28_LoopRunsAllSteps ==
    /\ [][LoopEnds => steps_run' = StepCount]_vars
    /\ [][rpc = "for" => cur_t' < cur_t /\ steps_run' = steps_run + 1]_vars
    /\ (rpc \in {"while", "for"}) ~> (rpc \notin {"while", "for"})

\* C28 as amended: the loop of an image that no exception interrupts
\* (the checkpoint of generate-init mode, an error of do_weights) terminates
\* and executes exactly steps - skip_steps - stop_early denoising steps; the
\* remaining-step counter strictly decreases on every step, whatever
\* number of corrections occur.
C28_UninterruptedLoopRunsAllSteps ==
    /\ [][(LoopEnds /\ exc' = "none") => steps_run' = StepCount]_vars
    /\ [][rpc = "for" => cur_t' < cur_t /\ steps_run' = steps_run + 1]_vars
    /\ (rpc \in {"while", "for"}) ~> (rpc \notin {"while", "for"})

\* an image with stop_early set was corrected, and its loop has run to its
\* end
C28_Witness ==
    /\ rpc = "batch" /\ batch_image >= 1 /\ exc = "none"
    /\ args.stop_early > 0
    /\ adjusted.kind # "none"
    /\ steps_run = StepCount /\ cur_t = -1

\* the checkpoints of the image b of the batch persisted at run step c
PartialSaves(b, c) ==
    {i \in 1..Len(saved) :
        saved[i] = [file |-> "partial", step |-> c, batch |-> b]}

\* the checkpoints of the image b: every listed step from skip_steps + 1 to
\* last exactly once and no other step (explicit list), or exactly the
\* positive multiples of the interval among the run steps
CheckpointsOf(b, last) ==
    IF args.steps_per_checkpoint = None
    THEN /\ \A c \in args.intermediate_saves :
               (args.skip_steps < c /\ c <= last) =>
                   Cardinality(PartialSaves(b, c)) = 1
         /\ \A i \in 1..Len(saved) :
               (saved[i].file = "partial" /\ saved[i].batch = b) =>
                   saved[i].step \in args.intermediate_saves
    ELSE \A c \in 0..args.steps :
            Cardinality(PartialSaves(b, c)) =
                IF /\ args.skip_steps < c
                   /\ c <= args.steps - args.stop_early
                   /\ c % args.steps_per_checkpoint = 0
                THEN 1 ELSE 0

\* C24: in explicit-list mode, for every listed step c with
\* skip_steps < c <= steps the preview is persisted as a checkpoint exactly
\* once, when the run-step counter equals c, and never at an unlisted step;
\* in interval mode a checkpoint is persisted exactly at the run-step counts
\* that are positive multiples of the computed interval. Both hold for runs
\* with any number of brightness/contrast restarts.
C24_ListedCheckpointsOnce ==
    \A b \in 0..(batch_image - 1) : CheckpointsOf(b, args.steps)

\* C24 as amended: the listed steps that are persisted are those with
\* skip_steps < c <= steps - stop_early, the steps the loop runs.
C24_ReachedCheckpointsOnce ==
    \A b \in 0..(batch_image - 1) :
        CheckpointsOf(b, args.steps - args.stop_early)

\* an image with the checkpoints 3 and 5 listed was corrected, and both
\* checkpoints are there
C24_Witness ==
    /\ rpc = "batch" /\ batch_image >= 1 /\ adjusted.kind # "none"
    /\ args.steps_per_checkpoint = None
    /\ args.intermediate_saves = {3, 5}
    /\ PartialSaves(0, 3) # {} /\ PartialSaves(0, 5) # {}

\* the weights of the prompts in force, image prompts first (lines 1038,
\* 1042)
ActiveWeights == prev_sample_image_prompt \o prev_sample_prompt

\* C25: after any sequence of do_weights calls (across steps, animation
\* frames and batch images), the prompt embeddings and weights of each clip
\* manager are exactly those of the text and image prompts in force: a
\* change of prompt overwrites the previous state, and nothing of an earlier
\* step, frame or image remains in it.
C25_OnlyActivePrompts ==
    (rpc \in {"while", "for"} /\ exc = "none") =>
        \A k \in 1..ClipManagers :
            /\ prompt_weights[k].set
            /\ Len(prompt_weights[k].w) = Len(ActiveWeights)
            /\ \A i \in 1..Len(ActiveWeights) :
                  NumEq(prompt_weights[k].w[i],
                        Normalize(ActiveWeights)[i])

\* the largest step of the prompt that is not beyond skip_steps
LastKeyBefore(prompt, skip_steps) ==
    LET keys == {k \in DOMAIN prompt : k <= skip_steps}
    IN  CHOOSE k \in keys : \A other \in keys : other <= k

\* C29: when an image starts from skip_steps > 0 and its prompts are keyed
\* by step, the prompt in force at the first executed step is the one of
\* the largest step key <= skip_steps: the initial lookup walks from
\* skip_steps down to 1 and falls back to step 0 only when there is no such
\* key.
C29_PromptOfLastKeyBefore ==
    (/\ rpc = "while" /\ steps_run = 0 /\ exc = "none"
     /\ args.skip_steps > 0 /\ 0 \in DOMAIN frame_prompt) =>
        prev_sample_prompt =
            frame_prompt[LastKeyBefore(frame_prompt, args.skip_steps)]

----------------------------------------------------------------------------
(* do_run.cond_fn: the gradient handed to the sampler                      *)

GradLen      == 2   \* elements of the image tensor x
MaxGrad      == 2   \* the largest finite element of a gradient
MaxClamp     == 2   \* args.clamp_max[1000 - t_int] is 1..MaxClamp
MaxCondCalls == 2   \* denoising steps the model follows

\* The elements of a float tensor: a finite value, an infinity of either
\* sign, or NaN.  A finite value is v * c / sqrt(msq[1] / msq[2]), which is
\* the integer v wherever the clamp has not scaled it (c = 1, msq = <<1, 1>>).
Fin(v)  == [k |-> "fin", v |-> v, c |-> 1, msq |-> <<1, 1>>]
Inf(sg) == [k |-> "inf", v |-> sg, c |-> 1, msq |-> <<1, 1>>]
NaN     == [k |-> "nan", v |-> 0, c |-> 1, msq |-> <<1, 1>>]

Sign(v) == IF v > 0 THEN 1 ELSE IF v < 0 THEN -1 ELSE 0

\* IEEE 754 negation, product and sum of two elements the clamp has not
\* scaled
NegF(a) == IF a.k = "nan" THEN NaN ELSE [a EXCEPT !.v = -a.v]

MulF(a, b) ==
    IF a.k = "nan" \/ b.k = "nan" THEN NaN
    ELSE IF a.k = "fin" /\ b.k = "fin" THEN Fin(a.v * b.v)
    ELSE IF Sign(a.v) * Sign(b.v) = 0 THEN NaN   \* 0 * inf
    ELSE Inf(Sign(a.v) * Sign(b.v))

AddF(a, b) ==
    IF a.k = "nan" \/ b.k = "nan" THEN NaN
    ELSE IF a.k = "fin" /\ b.k = "fin" THEN Fin(a.v + b.v)
    ELSE IF a.k = "inf" /\ b.k = "inf"
         THEN (IF a.v = b.v THEN a ELSE NaN)      \* inf - inf
    ELSE IF a.k = "inf" THEN a ELSE b

\* torch.isnan(t).any()
AnyNaN(t) == \E i \in 1..Len(t) : t[i].k = "nan"

AnyInf(t) == \E i \in 1..Len(t) : t[i].k = "inf"

\* torch.isfinite(t).all()
AllFinite(t) == \A i \in 1..Len(t) : t[i].k = "fin"

\* torch.zeros_like(x)
zeros_like == [i \in 1..GradLen |-> Fin(0)]

\* The values x_in_grad can hold once every prompt's and every loss's
\* gradient has been added to it (line 1177)
Elements ==
    {Fin(v) : v \in {-1, 0, MaxGrad}} \cup {Inf(1), Inf(-1), NaN}

Gradients == [1..GradLen -> Elements]

\* The Jacobian of x_in = out * fac + x * (1 - fac) with respect to x,
\* row j holding the derivatives of x_in[j]: one value on the diagonal (an
\* element's own derivative) and one off it (the model mixing the elements)
Jacobian(dg, off) ==
    [j \in 1..GradLen |-> [i \in 1..GradLen |-> IF i = j THEN dg ELSE off]]

Jacobians == {Jacobian(dg, off) : dg, off \in {-1, 0, 1}}

\* The sum of J[j][i] * v[j] over j = 1..n
RECURSIVE VJPSum(_, _, _, _)
VJPSum(J, v, i, n) ==
    IF n = 1 THEN MulF(Fin(J[1][i]), v[1])
    ELSE AddF(VJPSum(J, v, i, n - 1), MulF(Fin(J[n][i]), v[n]))

\* torch.autograd.grad(x_in, x, x_in_grad)[0]: the vector-Jacobian product
autograd_grad(J, v) == [i \in 1..GradLen |-> VJPSum(J, v, i, GradLen)]

RECURSIVE SumSquares(_, _)
SumSquares(t, n) ==
    IF n = 0 THEN 0 ELSE SumSquares(t, n - 1) + t[n].v * t[n].v

\* lines 1185-1187: grad * magnitude.clamp(max = clamp_max) / magnitude with
\* magnitude = grad.square().mean().sqrt()
ClampGrad(g, clamp_max) ==
    IF AnyNaN(g) THEN [i \in 1..GradLen |-> NaN]       \* magnitude is NaN
    ELSE IF AnyInf(g)                                  \* magnitude is inf
    THEN [i \in 1..GradLen |->
             IF g[i].k = "inf" THEN NaN                \* inf / inf
             ELSE Fin(0)]                              \* finite / inf
    ELSE IF SumSquares(g, GradLen) = 0                 \* magnitude is 0
    THEN [i \in 1..GradLen |-> NaN]                    \* 0 / 0
    ELSE IF SumSquares(g, GradLen) <= clamp_max * clamp_max * GradLen
    THEN g                                             \* magnitude <= max
    ELSE [i \in 1..GradLen |->
             [g[i] EXCEPT !.c = clamp_max,
                          !.msq = <<SumSquares(g, GradLen), GradLen>>]]

\* lines 1178-1183: the test lets the accumulated gradient through
PassesNaNTest(g) == ~AnyNaN(g)

\* lines 1178-1188: what cond_fn returns for the accumulated gradient g
Returned(g, J) ==
    LET nan == ~PassesNaNTest(g)
        gr  == IF nan THEN zeros_like
               ELSE [i \in 1..GradLen |-> NegF(autograd_grad(J, g)[i])]
    IN  [x_is_NaN |-> nan,
         grad     |-> IF cond_args.clamp_grad /\ ~nan
                      THEN ClampGrad(gr, cond_args.clamp_max)
                      ELSE gr]

\* One image's run is about to start: line 1118
InitCond ==
    /\ cond_args \in [clamp_grad : BOOLEAN, clamp_max : 1..MaxClamp]
    /\ cond_calls = 0
    /\ x_in_grad = zeros_like /\ x_is_NaN = FALSE /\ grad = zeros_like
    /\ latent = "cond_fn"
    /\ GridIdle /\ SchedIdle /\ RunIdle /\ BootIdle /\ MaskIdle /\ BigIdle /\ LoopIdle

\* lines 1117-1188: the sampler calls cond_fn on the current image
CondFn ==
    /\ latent = "cond_fn"
    /\ cond_calls < MaxCondCalls
    /\ \E g \in Gradients, J \in Jacobians :
          \E r \in {Returned(g, J)} :
              /\ x_in_grad' = g
              /\ x_is_NaN' = r.x_is_NaN
              /\ grad' = r.grad
    /\ cond_calls' = cond_calls + 1
    /\ latent' = "sampler"
    /\ UNCHANGED <<cond_args, notCond>>

\* lines 1214-1242: the sampler adds the returned gradient to its estimate
\* of the image and goes on to the next step; an image that is no longer
\* finite is not followed further
SamplerStep ==
    /\ latent = "sampler"
    /\ latent' = IF AllFinite(grad) THEN "cond_fn" ELSE "corrupted"
    /\ UNCHANGED <<cond_calls, cond_args, x_in_grad, x_is_NaN, grad, notCond>>

NextCond == CondFn \/ SamplerStep

SpecCond == InitCond /\ [][NextCond]_vars

----------------------------------------------------------------------------
(* Claims about cond_fn                                                    *)

\* C10: whenever the accumulated gradient of a step holds a value that is
\* not finite (NaN or an infinity), cond_fn returns the all-zero gradient
\* without clamping it, and the run goes on to the next step.
C10_NonFiniteDiscarded ==
    (latent = "sampler" /\ ~AllFinite(x_in_grad)) =>
        (x_is_NaN /\ grad = zeros_like)

----------------------------------------------------------------------------
(* The start of the program: skip_steps, the models, the first image       *)

BootSteps == 12   \* my_settings.steps
MaxSkip   == 14   \* my_settings.skip_steps is 0..MaxSkip

\* the values of frames_skip_steps the specification draws, in percent
FramesSkipSteps == {0, 60, 100, 150}

\* line 2165-2166: math.floor(steps * (int(frames_skip_steps.rstrip("%")) / 100))
CalcFramesSkipSteps(s) == (s.steps * s.frames_skip_steps) \div 100

\* The settings as the settings files and the command line give them
InitBoot ==
    /\ boot = "skip_steps"
    /\ my_settings \in
         [steps : {BootSteps}, skip_steps : 0..MaxSkip,
          init_image : BOOLEAN, perlin_init : BOOLEAN,
          frames_skip_steps : FramesSkipSteps,
          animation_mode : {"None", "2D"}, stop_early : {0, 2}]
    /\ useinit \in BOOLEAN
    /\ models_loaded = FALSE /\ calc_frames_skip_steps = 0
    /\ boot_exc = "none" /\ boot_cur_t = 0 /\ boot_steps_run = 0
    /\ GridIdle /\ SchedIdle /\ RunIdle /\ CondIdle /\ MaskIdle /\ BigIdle /\ LoopIdle

\* lines 473-477: a skip_steps of 0 with an init image or a perlin init is
\* to be derived from the ratio; the test reads the name skip_steps_ratio,
\* which nothing defines, and raises NameError
SkipStepsRatio ==
    /\ boot = "skip_steps"
    /\ IF my_settings.skip_steps = 0
          /\ (my_settings.init_image \/ my_settings.perlin_init)
       THEN boot' = "exit" /\ boot_exc' = "NameError"
       ELSE boot' = "useinit" /\ UNCHANGED boot_exc
    /\ UNCHANGED <<my_settings, useinit, models_loaded,
                   calc_frames_skip_steps, boot_cur_t, boot_steps_run>>
    /\ UNCHANGED notBoot

\* lines 479-481: --useinit with a skip_steps of 0 skips int(steps * 0.2)
UseInit ==
    /\ boot = "useinit"
    /\ my_settings' =
         IF useinit /\ my_settings.skip_steps = 0
         THEN [my_settings EXCEPT
                 !.skip_steps = (2 * my_settings.steps) \div 10]
         ELSE my_settings
    /\ boot' = "models"
    /\ UNCHANGED <<useinit, models_loaded, calc_frames_skip_steps, boot_exc,
                   boot_cur_t, boot_steps_run>>
    /\ UNCHANGED notBoot

\* lines 1854-1861: the lpips, secondary and CLIP models are loaded
LoadModels ==
    /\ boot = "models"
    /\ models_loaded' = TRUE
    /\ boot' = "frames_check"
    /\ UNCHANGED <<my_settings, useinit, calc_frames_skip_steps, boot_exc,
                   boot_cur_t, boot_steps_run>>
    /\ UNCHANGED notBoot

\* lines 2165-2169: the only test of skipped steps against the steps
FramesCheck ==
    /\ boot = "frames_check"
    /\ calc_frames_skip_steps' = CalcFramesSkipSteps(my_settings)
    /\ IF my_settings.steps <= calc_frames_skip_steps'
       THEN boot' = "exit" /\ boot_exc' = "SystemExit"
       ELSE boot' = "do_run" /\ UNCHANGED boot_exc
    /\ UNCHANGED <<my_settings, useinit, models_loaded, boot_cur_t,
                   boot_steps_run>>
    /\ UNCHANGED notBoot

\* do_run for the first image (lines 897, 1202): its first frame takes
\* args.skip_steps, and cur_t = diffusion.num_timesteps - skip_steps - 1
StartRun ==
    /\ boot = "do_run"
    /\ boot_cur_t' = my_settings.steps - my_settings.skip_steps - 1
    /\ boot' = "while"
    /\ UNCHANGED <<my_settings, useinit, models_loaded,
                   calc_frames_skip_steps, boot_exc, boot_steps_run>>
    /\ UNCHANGED notBoot

\* lines 1250-1260: while cur_t >= stop_early a denoising step runs; when
\* the loop ends the program ends normally
DenoisingStep ==
    /\ boot = "while"
    /\ IF boot_cur_t >= my_settings.stop_early
       THEN /\ boot_steps_run' = boot_steps_run + 1
            /\ boot_cur_t' = IF boot_cur_t - 1 < my_settings.stop_early
                             THEN -1 ELSE boot_cur_t - 1
            /\ UNCHANGED boot
       ELSE /\ boot' = "exit"
            /\ UNCHANGED <<boot_cur_t, boot_steps_run>>
    /\ UNCHANGED <<my_settings, useinit, models_loaded,
                   calc_frames_skip_steps, boot_exc>>
    /\ UNCHANGED notBoot

NextBoot ==
    \/ SkipStepsRatio \/ UseInit \/ LoadModels \/ FramesCheck
    \/ StartRun \/ DenoisingStep

SpecBoot == InitBoot /\ [][NextBoot]_vars

----------------------------------------------------------------------------
(* Claims about the start of the program                                   *)

\* the skip_steps the settings resolve to exceed the steps: the explicit or
\* derived skip_steps, or the one derived for the frames of an animation
ExceedsSteps ==
    /\ boot \notin {"skip_steps", "useinit"}
    /\ \/ my_settings.skip_steps > my_settings.steps
       \/ /\ my_settings.animation_mode # "None"
          /\ CalcFramesSkipSteps(my_settings) > my_settings.steps

\* C11: a configuration whose resolved skip_steps exceeds the steps is
\* rejected with a fatal error before any model is loaded and before any
\* denoising step runs.
C11_ExcessSkipRejected ==
    ExceedsSteps =>
        /\ ~models_loaded
        /\ boot_steps_run = 0
        /\ boot = "exit" => boot_exc # "none"

----------------------------------------------------------------------------
(* do_run: the render mask and the pixels of the final image               *)
(*                                                                         *)
(* An image is the list of its pixels; a pixel is one colour value c and   *)
(* its alpha a, both 0..255. The init image and the mask have the size of  *)
(* the render, so that resizing them (lines 1090, 1101) changes nothing.   *)

NPix      == 2   \* pixels of an image
MaskSteps == 2   \* denoising steps of the run

Colours    == {0, 100, 255}   \* the colour values the images hold
MaskLevels == {0, 128, 255}   \* the levels the render mask holds

Pixel(c, a) == [c |-> c, a |-> a]

\* Image.convert('RGBA') of an image without alpha, and the RGB image the
\* sampler yields: every pixel is opaque
Opaque(colours) == [i \in 1..Len(colours) |-> Pixel(colours[i], 255)]

\* image.putalpha(mask)
putalpha(img, mask) == [i \in 1..Len(img) |-> Pixel(img[i].c, mask[i])]

\* one pixel of Image.alpha_composite over an opaque destination: the
\* source weighs in with its alpha, rounded to the nearest value
OverPixel(dst, src) ==
    Pixel((src.c * src.a + dst.c * (255 - src.a) + 127) \div 255, 255)

\* Image.alpha_composite(dst, src)
alpha_composite(dst, src) ==
    [i \in 1..Len(dst) |-> OverPixel(dst[i], src[i])]

\* The settings of the run and the files they name
InitMask ==
    /\ mpc = "open"
    /\ mask_args \in
         [init_image : [1..NPix -> Colours] \cup {<<>>},
          render_mask : [1..NPix -> MaskLevels] \cup {<<>>},
          sharpen_preset : {"Off", "Fast"}]
    /\ init_img = <<>> /\ rmask_img = <<>> /\ image = <<>>
    /\ mask_cur_t = 0 /\ progress_png = <<>> /\ final_output = <<>>
    /\ mask_exc = "none"
    /\ GridIdle /\ SchedIdle /\ RunIdle /\ CondIdle /\ BootIdle /\ BigIdle /\ LoopIdle

\* lines 1087-1103 and 1202: the init image and the render mask are opened.
\* With a render mask, line 1103 then reads the name init_masked, a global
\* of the module that is bound only by line 2599, in the tile loop of a
\* go-big pass, which comes after the first call of do_run: NameError.
OpenImages ==
    /\ mpc = "open"
    /\ init_img' = IF mask_args.init_image # <<>>
                   THEN Opaque(mask_args.init_image) ELSE <<>>
    /\ rmask_img' = mask_args.render_mask
    /\ IF mask_args.render_mask # <<>>
       THEN /\ mpc' = "error" /\ mask_exc' = "NameError"
            /\ UNCHANGED mask_cur_t
       ELSE /\ mpc' = "for" /\ mask_cur_t' = MaskSteps - 1
            /\ UNCHANGED mask_exc
    /\ UNCHANGED <<mask_args, image, progress_png, final_output>>
    /\ UNCHANGED notMask

\* lines 1344-1354 with sharpening off: the image composited with the mask
\* and what is saved; init_img is not bound when there is no init image
FinalImage(img) ==
    IF rmask_img = <<>> THEN [exc |-> "none", image |-> img]
    ELSE IF init_img = <<>>
    THEN [exc |-> "UnboundLocalError", image |-> img]
    ELSE [exc |-> "none",
          image |-> alpha_composite(init_img, putalpha(img, rmask_img))]

\* one iteration of the loop over the samples (lines 1252-1425): the
\* sampler yields a preview, progress.png is written, and at cur_t == -1
\* the final image is
SampleImage ==
    /\ mpc = "for"
    /\ \E colours \in [1..NPix -> Colours] :
          LET img == Opaque(colours)
              t   == IF mask_cur_t - 1 < 0 THEN -1 ELSE mask_cur_t - 1
          IN  /\ mask_cur_t' = t
              /\ IF t # -1
                 THEN /\ image' = img /\ progress_png' = img
                      /\ UNCHANGED <<mpc, final_output, mask_exc>>
                 ELSE IF mask_args.sharpen_preset # "Off"
                 THEN /\ image' = img /\ progress_png' = img
                      /\ mpc' = "done"
                      /\ UNCHANGED <<final_output, mask_exc>>
                 ELSE \E f \in {FinalImage(img)} :
                      /\ image' = f.image
                      /\ mask_exc' = f.exc
                      /\ IF f.exc # "none"
                         THEN /\ mpc' = "error"
                              /\ progress_png' = img
                              /\ UNCHANGED final_output
                         ELSE /\ mpc' = "done"
                              /\ progress_png' = f.image
                              /\ final_output' = f.image
    /\ UNCHANGED <<mask_args, init_img, rmask_img>>
    /\ UNCHANGED notMask

NextMask == OpenImages \/ SampleImage

SpecMask == InitMask /\ [][NextMask]_vars

----------------------------------------------------------------------------
(* Claims about the render mask                                            *)

\* the run has an init image and a render mask whose pixels are all zero
ZeroMask ==
    /\ mask_args.init_image # <<>>
    /\ mask_args.render_mask = [i \in 1..NPix |-> 0]

\* C13: with an init image and a render mask whose pixels are all zero, the
\* run ends with a final image saved that equals the init image pixel for
\* pixel: no generated pixel appears in it.
C13_ZeroMaskKeepsInit ==
    (ZeroMask /\ mpc \in {"done", "error"}) =>
        final_output = Opaque(mask_args.init_image)

----------------------------------------------------------------------------
(* Go big: the tiles are cut, rendered again and merged                    *)
(*                                                                         *)
(* The steps of a pass are followed one after the other on given values of *)
(* the names they read (side_x, side_y, gobig_scale, gobig_overlap,        *)
(* init_masked), for a run without --gobiginit: the source is the rendered *)
(* image resized by gobig_scale, and the tiles have the size of the        *)
(* original render. This is what grid_slice, the tile loop, the alpha mask *)
(* and grid_merge compute. In the file as it stands gobig_scale and        *)
(* gobig_overlap are bound nowhere and a pass ends at line 2500 or 2514:   *)
(* the batch loop below follows that.                                      *)

MaxSide   == 3   \* side_x and side_y are 1..MaxSide
MaxScale  == 2   \* gobig_scale is 2..MaxScale
MaxSlices == 3   \* --gobig_slices is absent (0) or MaxSlices
AlphaStep == 4   \* 'a += 4' (line 2624)

\* what the grid of the pass leaves alone
notBigGrid == <<schedVars, runVars, condVars, bootVars, maskVars, loopVars>>

\* The state at line 2497, after the image was rendered
InitBig ==
    /\ bpc = "slices_todo"
    /\ gobig \in [side_x : 1..MaxSide, side_y : 1..MaxSide,
                  gobig_scale : 2..MaxScale, gobig_overlap : 0..MaxOverlap,
                  gobig_slices : {0, MaxSlices},
                  render_mask : BOOLEAN, init_masked : BOOLEAN]
    /\ slices_todo = 0 /\ slices = <<>> /\ betterslices = <<>>
    /\ alpha = <<>> /\ source_image = <<>> /\ merged = 0
    /\ rmasks = <<>> /\ imasks = <<>>
    /\ GridIdle /\ SchedIdle /\ RunIdle /\ CondIdle /\ BootIdle /\ MaskIdle /\ LoopIdle

\* lines 2497-2500: the number of slices, from --gobig_slices or the scale
SlicesTodo ==
    /\ bpc = "slices_todo"
    /\ slices_todo' = IF gobig.gobig_slices # 0 THEN gobig.gobig_slices
                      ELSE gobig.gobig_scale * gobig.gobig_scale + 1
    /\ bpc' = "resize"
    /\ UNCHANGED <<gobig, slices, betterslices, alpha, source_image, merged>>
    /\ UNCHANGED <<rmasks, imasks>>
    /\ UNCHANGED notBig

\* lines 2531-2548 and 2472-2473: the image is resized by gobig_scale and
\* grid_slice calls grid_coords(source.size, og_size, overlap), which
\* starts on the centre chunk (lines 2413-2428)
GridSliceCall ==
    /\ bpc = "resize"
    /\ target' = <<gobig.side_x * gobig.gobig_scale,
                   gobig.side_y * gobig.gobig_scale>>
    /\ original' = <<gobig.side_x, gobig.side_y>>
    /\ overlap' = gobig.gobig_overlap
    /\ gpc' = "center_up"
    /\ uy' = TruncDiv(target'[2], 2) - TruncDiv(original'[2], 2)
    /\ dy' = uy'
    /\ lx' = TruncDiv(target'[1], 2) - TruncDiv(original'[1], 2)
    /\ rx' = lx'
    /\ uy_list' = <<>> /\ dy_list' = <<>> /\ lx_list' = <<>>
    /\ rx_list' = <<>> /\ result' = <<>>
    /\ source_image' = [p \in (0..(target'[1] - 1)) \X (0..(target'[2] - 1))
                          |-> <<>>]
    /\ bpc' = "grid_coords"
    /\ UNCHANGED <<gobig, slices_todo, slices, betterslices, alpha, merged>>
    /\ UNCHANGED <<rmasks, imasks>>
    /\ UNCHANGED notBigGrid

\* the box source.crop((x, y, x+width, y+height)) cuts (line 2478)
CropBox(x, y) == <<x, y, x + original[1], y + original[2]>>

\* grid_slice(source_render_mask, og_size) and grid_slice(source_imask,
\* og_size) (lines 2549-2556) give og_size as the overlap and leave the
\* parameter og_size at its default None (line 2471), which
\* 'width, height = og_size' (line 2472) cannot unpack: TypeError
MaskSliceCalled == gobig.render_mask \/ gobig.init_masked

\* lines 2474-2481: grid_coords has returned; every coordinate is cropped,
\* and slices_todo becomes len(slices) - 1. Lines 2549-2556 then slice the
\* masks that are configured; the TypeError is not caught (line 2644)
GridSliceReturn ==
    /\ bpc = "grid_coords" /\ gpc = "done"
    /\ slices' = [i \in 1..Len(result) |->
                    [chunk |-> CropBox(result[i][1], result[i][2]),
                     x |-> result[i][1], y |-> result[i][2]]]
    /\ slices_todo' = Len(slices') - 1
    /\ bpc' = IF MaskSliceCalled THEN "TypeError" ELSE "for"
    /\ UNCHANGED <<gobig, betterslices, alpha, source_image, merged>>
    /\ UNCHANGED <<rmasks, imasks>>
    /\ UNCHANGED notBig

\* lines 2616-2628, one pixel of the mask: it starts at 0xFF, and the
\* rectangle number i, of the corners (side_x - i, side_y - i) and (i, i),
\* both inside it, is filled with a = 4 * i, for i = 0 .. overlap - 1
InRectangle(p, i) ==
    LET x0 == IF gobig.side_x - i < i THEN gobig.side_x - i ELSE i
        x1 == IF gobig.side_x - i < i THEN i ELSE gobig.side_x - i
        y0 == IF gobig.side_y - i < i THEN gobig.side_y - i ELSE i
        y1 == IF gobig.side_y - i < i THEN i ELSE gobig.side_y - i
    IN  x0 <= p[1] /\ p[1] <= x1 /\ y0 <= p[2] /\ p[2] <= y1

RECURSIVE AlphaLoop(_, _, _)
AlphaLoop(mask, a, i) ==
    IF i < gobig.gobig_overlap
    THEN AlphaLoop([p \in DOMAIN mask |->
                       IF InRectangle(p, i) THEN a ELSE mask[p]],
                   a + AlphaStep, i + 1)
    ELSE mask

\* lines 2617-2628: the alpha mask of a tile
AlphaMask ==
    AlphaLoop([p \in (0..(gobig.side_x - 1)) \X (0..(gobig.side_y - 1))
                 |-> 255], 0, 0)

\* one iteration of the loop over the slices (lines 2562-2612): do_run
\* renders the chunk again, and the result is kept with the coordinates of
\* the chunk; after the last one the alpha mask is made (lines 2615-2628)
RenderSlice ==
    /\ bpc = "for"
    /\ IF Len(betterslices) < Len(slices)
       THEN LET s == slices[Len(betterslices) + 1]
            IN  /\ betterslices' =
                     Append(betterslices,
                            [rendered |-> s.chunk, x |-> s.x, y |-> s.y])
                /\ UNCHANGED <<bpc, alpha>>
       ELSE /\ alpha' = AlphaMask
            /\ bpc' = "grid_merge"
            /\ UNCHANGED betterslices
    /\ UNCHANGED <<gobig, slices_todo, slices, source_image, merged>>
    /\ UNCHANGED <<rmasks, imasks>>
    /\ UNCHANGED notBig

\* a tile drawn under what the canvas holds
DrawUnder(stack, i) == <<i>> \o stack

\* source.alpha_composite(slice, (posx, posy)): the tile i goes over what
\* the pixel holds
DrawOver(stack, i) == Append(stack, i)

\* the pixel p of the canvas lies under a tile put at (x, y)
UnderTile(p, x, y) ==
    /\ x <= p[1] /\ p[1] < x + gobig.side_x
    /\ y <= p[2] /\ p[2] < y + gobig.side_y

\* grid_merge (lines 2404-2408), one iteration of its loop: the next of the
\* finished slices is composited at its coordinates; after the last one the
\* canvas is saved (lines 2634-2635)
GridMerge ==
    /\ bpc = "grid_merge"
    /\ IF merged < Len(betterslices)
       THEN LET i == merged + 1
                b == betterslices[i]
            IN  /\ source_image' =
                     [p \in DOMAIN source_image |->
                        IF UnderTile(p, b.x, b.y)
                        THEN DrawOver(source_image[p], i)
                        ELSE source_image[p]]
                /\ merged' = i
                /\ UNCHANGED bpc
       ELSE /\ bpc' = "saved"
            /\ UNCHANGED <<source_image, merged>>
    /\ UNCHANGED <<gobig, slices_todo, slices, betterslices, alpha>>
    /\ UNCHANGED <<rmasks, imasks>>
    /\ UNCHANGED notBig

NextBig ==
    \/ SlicesTodo \/ GridSliceCall \/ NextGrid \/ GridSliceReturn
    \/ RenderSlice \/ GridMerge

SpecBig == InitBig /\ [][NextBig]_vars

----------------------------------------------------------------------------
(* Claims about go big                                                     *)

\* the tiles among the first n that cover the pixel p, in ascending order
TilesOver(p, n) ==
    SortedSeq({i \in 1..n : UnderTile(p, result[i][1], result[i][2])})

C15_TileCount ==
    bpc \in {"grid_merge", "saved"} =>
        Len(betterslices) =
            IF gobig.gobig_slices # 0 THEN gobig.gobig_slices
            ELSE gobig.gobig_scale * gobig.gobig_scale + 1

\* the distance of the pixel p of a tile from the border of the tile
Distance(p) ==
    LET ds == {p[1], p[2], gobig.side_x - 1 - p[1], gobig.side_y - 1 - p[2]}
    IN  CHOOSE m \in ds : \A e \in ds : m <= e

\* C17: for any overlap width the alpha of the mask is 0 on the outermost
\* pixels, grows by one fixed step per pixel of distance from the border,
\* and is 255 at every pixel whose distance from the border is at least
\* the overlap width.
C17_FeatheredMask ==
    bpc \in {"grid_merge", "saved"} =>
        \E step \in 1..255 :
            \A p \in DOMAIN alpha :
                alpha[p] = IF Distance(p) >= gobig.gobig_overlap THEN 255
                           ELSE step * Distance(p)

\* the tiles of a mask are as many as the tiles of the source image, each
\* cropped from the rectangle of the source tile of the same index
SlicedAlike(masks) ==
    /\ Len(masks) = Len(slices)
    /\ \A i \in 1..Len(slices) : masks[i].chunk = slices[i].chunk

\* C26: when a render mask or an init mask is configured for a go-big pass,
\* the mask is sliced into as many tiles as the source image, and the i-th
\* tile of the mask is cropped from the rectangle of the i-th source tile.
C26_MasksSlicedAlike ==
    bpc \notin {"slices_todo", "resize", "grid_coords"} =>
        /\ gobig.render_mask => SlicedAlike(rmasks)
        /\ gobig.init_masked => SlicedAlike(imasks)

----------------------------------------------------------------------------
(* The batch loop: the renders of a program run and its go-big passes      *)
(*                                                                         *)
(* The loop is followed as the file stands, for a run without --gobiginit  *)
(* and an integer width_height_scale. The names batch_name, gobig_scale,   *)
(* gobig_overlap, gobig_skip_ratio, steps, perlin_mode and unsharpenFolder *)
(* are read by the file and bound nowhere in it (the settings of these     *)
(* names are attributes of my_settings), and init_image and init_masked    *)
(* are bound only inside the tile loop (lines 2594, 2599): reading one of  *)
(* them raises NameError, which nothing catches (line 2644 catches         *)
(* KeyboardInterrupt only).                                                *)

SizeUnit == 64                \* sides are multiples of 64 (lines 1839-1840)
Sides    == {64, 100, 191}    \* width and height of the settings files
MaxSizeScale == 2             \* width_height_scale is 1..MaxSizeScale

\* The size is taken as it is configured
CorrectedSizeAsGiven(v) == v

\* lines 1839-1840: (width_height // 64) * 64
CorrectedSize(v) == (v \div SizeUnit) * SizeUnit

\* line 411: width_height multiplied by width_height_scale
ScaledWidthHeight(f) ==
    <<f.width_height[1] * f.width_height_scale,
      f.width_height[2] * f.width_height_scale>>

\* lines 2232-2312: the namespace args, built from my_settings and the
\* corrected sizes; it has no attribute fix_brightness_contrast
ArgsOf(s, sd) ==
    [side_x |-> sd[1], side_y |-> sd[2], skip_steps |-> s.skip_steps,
     init_image |-> s.init_image, perlin_init |-> s.perlin_init,
     symmetry_loss_v |-> s.symmetry_loss_v,
     symmetry_loss_h |-> s.symmetry_loss_h]

\* The state at line 2488, before the first image of the batch
InitLoop ==
    /\ lpc = "do_run"
    /\ settings_file \in [width_height : Sides \X Sides,
                          width_height_scale : 1..MaxSizeScale]
    /\ loop_cl_args \in [gobig : BOOLEAN, gobig_slices : {0, MaxSlices}]
    /\ \E n \in 1..MaxBatches, skip \in {0, 2}, img \in {"None", "init.png"},
          perlin, mask, v, h, fix \in BOOLEAN :
          loop_settings =
             [width_height |-> ScaledWidthHeight(settings_file),
              steps |-> Steps, n_batches |-> n, skip_steps |-> skip,
              init_image |-> img, perlin_init |-> perlin,
              render_mask |-> mask, symmetry_loss_v |-> v,
              symmetry_loss_h |-> h, fix_brightness_contrast |-> fix,
              gobig_skip_ratio |-> PyFloat(6, 10)]
    /\ side = <<CorrectedSize(loop_settings.width_height[1]),
                CorrectedSize(loop_settings.width_height[2])>>
    /\ loop_args = ArgsOf(loop_settings, side)
    /\ temp_args = <<>> /\ og_size = <<>> /\ loop_batch = 0 /\ passes = 0
    /\ runs = <<>> /\ loop_exc = "none"
    /\ GridIdle /\ SchedIdle /\ RunIdle /\ CondIdle /\ BootIdle /\ MaskIdle
    /\ BigIdle

\* what do_run(batch_num, slice_num) renders: the sampled image has the
\* shape (batch_size, 3, args.side_y, args.side_x) (lines 1218, 1231), the
\* loop starts at args.skip_steps (lines 897, 1202), on args.init_image
\* (lines 892-895), the symmetry losses are those of args (lines 1171-1176)
\* and self-correction is that of my_settings (line 1395)
Render(slice_num) ==
    [batch_image |-> loop_batch, slice_num |-> slice_num,
     side_x |-> loop_args.side_x, side_y |-> loop_args.side_y,
     skip_steps |-> loop_args.skip_steps,
     init_image |-> loop_args.init_image,
     perlin_init |-> FALSE,
     symmetry_loss |-> loop_args.symmetry_loss_v
                       \/ loop_args.symmetry_loss_h,
     fix_brightness_contrast |-> loop_settings.fix_brightness_contrast]

\* do_run cannot render: with a render mask line 1103 reads init_masked;
\* with perlin_init, gen_perlin reads perlin_mode (lines 1111-1112, 825)
\* or line 1209 reads init_image
DoRunUnbound == loop_settings.render_mask \/ loop_args.perlin_init

\* lines 2489-2491: og_size = (side_x, side_y) and do_run(batch_image)
DoRun ==
    /\ lpc = "do_run"
    /\ og_size' = side
    /\ IF DoRunUnbound
       THEN /\ lpc' = "error" /\ loop_exc' = "NameError"
            /\ UNCHANGED runs
       ELSE /\ runs' = Append(runs, Render(-1))
            /\ lpc' = IF loop_cl_args.gobig THEN "gobig" ELSE "next"
            /\ UNCHANGED loop_exc
    /\ UNCHANGED <<settings_file, loop_settings, loop_cl_args, loop_args,
                   temp_args, side, loop_batch, passes>>
    /\ UNCHANGED notLoop

\* lines 2492-2500: a go-big pass begins with the number of slices, which
\* is --gobig_slices or gobig_scale * gobig_scale + 1; gobig_scale is not
\* bound
GoBig ==
    /\ lpc = "gobig"
    /\ passes' = passes + 1
    /\ IF loop_cl_args.gobig_slices # 0
       THEN lpc' = "filenames" /\ UNCHANGED loop_exc
       ELSE lpc' = "error" /\ loop_exc' = "NameError"
    /\ UNCHANGED <<settings_file, loop_settings, loop_cl_args, loop_args,
                   temp_args, side, og_size, loop_batch, runs>>
    /\ UNCHANGED notLoop

\* lines 2501-2519: args is copied to temp_args and the file names of the
\* pass are made; the name of the output reads batch_name, which is not
\* bound, so that the pass ends before the image is resized or sliced
\* (lines 2531-2556) and before the tile loop (lines 2562-2612)
Filenames ==
    /\ lpc = "filenames"
    /\ temp_args' = loop_args
    /\ lpc' = "error" /\ loop_exc' = "NameError"
    /\ UNCHANGED <<settings_file, loop_settings, loop_cl_args, loop_args,
                   side, og_size, loop_batch, passes, runs>>
    /\ UNCHANGED notLoop

\* lines 2639-2642 and 2488: the next image of the batch, if any
NextImage ==
    /\ lpc = "next"
    /\ loop_batch' = loop_batch + 1
    /\ lpc' = IF loop_batch' < loop_settings.n_batches THEN "do_run"
              ELSE "done"
    /\ UNCHANGED <<settings_file, loop_settings, loop_cl_args, loop_args,
                   temp_args, side, og_size, passes, runs, loop_exc>>
    /\ UNCHANGED notLoop

NextLoop == DoRun \/ GoBig \/ Filenames \/ NextImage

SpecLoop == InitLoop /\ [][NextLoop]_vars

----------------------------------------------------------------------------
(* Claims about the renders of the batch loop                              *)

\* C22: the image that is sampled and saved by a render has the configured
\* width and height, multiplied by width_height_scale, each rounded down to
\* the nearest multiple of 64.
C22_SidesRoundedDown ==
    \A i \in 1..Len(runs) :
        LET w == settings_file.width_height[1]
                 * settings_file.width_height_scale
            h == settings_file.width_height[2]
                 * settings_file.width_height_scale
        IN  /\ runs[i].side_x % 64 = 0 /\ runs[i].side_y % 64 = 0
            /\ runs[i].side_x <= w /\ w < runs[i].side_x + 64
            /\ runs[i].side_y <= h /\ h < runs[i].side_y + 64

\* every image of a batch of more than one was rendered, from a scaled
\* width that is not a multiple of 64 and a scaled height that is
C22_Witness ==
    /\ lpc = "done" /\ Len(runs) = loop_settings.n_batches /\ Len(runs) > 1
    /\ settings_file.width_height_scale > 1
    /\ loop_settings.width_height[1] % 64 # 0
    /\ loop_settings.width_height[2] % 64 = 0
    /\ runs[Len(runs)].side_x < loop_settings.width_height[1]

\* a go-big pass has begun and the program is over, normally or not
GoBigOver == passes > 0 /\ lpc \in {"done", "error"}

\* the renders of tiles
TileRuns == {i \in 1..Len(runs) : runs[i].slice_num # -1}

\* C27: the tiles of a go-big pass are rendered, and in every render of a
\* tile the symmetry losses are off, the initial image is the tile cut
\* from the source and not a perlin image, and the loop starts at
\* skip_steps = int(steps * gobig_skip_ratio).
C27_TileRunsStartFromTile ==
    GoBigOver =>
        /\ TileRuns # {}
        /\ \A i \in TileRuns :
              /\ ~runs[i].symmetry_loss /\ ~runs[i].perlin_init
              /\ runs[i].init_image = "slice.png"
              /\ runs[i].skip_steps =
                    TruncDiv(loop_settings.steps
                                * loop_settings.gobig_skip_ratio.n,
                             loop_settings.gobig_skip_ratio.d)

\* C30: the tiles of a go-big pass are rendered, and in every render of a
\* tile self-correction is off: the test of line 1395 cannot hold, whatever
\* the settings of the base render.
C30_TileRunsUncorrected ==
    GoBigOver =>
        /\ \E i \in 1..Len(runs) : runs[i].slice_num # -1
        /\ \A i \in 1..Len(runs) :
              runs[i].slice_num # -1 => ~runs[i].fix_brightness_contrast

====
